---- MODULE Spec2Model ----
(***************************************************************************)
(* Model of the spectrogram rendering pipeline of                          *)
(* backend/app/services/spectrogram.py: SpectrogramService's colour map    *)
(* (_get_color_for_value), spectral analyzer (_compute_spectrogram), PNG   *)
(* encoder (_encode_png), sample conversion (_decode_audio) and            *)
(* generate_spectrogram_png, and of the endpoints of                       *)
(* backend/app/api/spectrogram.py that call it.                            *)
(*                                                                         *)
(* Numbers.  Sample counts, frame counts and pixel coordinates are the     *)
(* program's integers.  Durations are exact rationals, kept as integer     *)
(* ticks of 1/SAMPLE_RATE second, so duration / max_duration is an exact   *)
(* quotient (IEEE rounding of that quotient is not modelled).  Decibel     *)
(* values are whole dB.  A normalized magnitude is kept in units of        *)
(* 1/NormScale, truncated; v = value ** 0.7 is kept in units of 1/VUnit,   *)
(* truncated, and is tabulated in Pow07Table.                              *)
(*                                                                         *)
(* The Fourier transform of a frame is not computed.  What is kept of it:  *)
(* a frame whose entries are all zero has magnitude 0 in every bin, hence  *)
(* 20*log10(1e-10) = -200 dB everywhere; any other frame has a fixed       *)
(* spectrum shape (SpectrumDb) whose level depends on whether the frame is *)
(* full or zero-padded.                                                    *)
(***************************************************************************)
EXTENDS Integers, Sequences, FiniteSets, TLC

VARIABLES
    pc,                 \* "idle", "returned", "raised", "colored", "encoded"
    samples,            \* the Sample Buffer: [len, onset, amp]
    buffer_after,       \* the Sample Buffer as the call leaves it
    duration,           \* argument duration, in ticks
    max_duration,       \* argument max_duration: [given, val], val in ticks
    num_frames,         \* locals of _compute_spectrogram
    display_width,
    display_height,
    spectrogram_width,
    frame_step,
    magnitudes,         \* the list of Magnitude Rows, one per analysed frame
    max_magnitude,
    min_db,
    actual_cols,
    image,              \* the Pixel Grid: [height, width, cols]
    error,              \* the exception raised, "none" if none
    value,              \* argument of _get_color_for_value, in 1/NormScale
    color,              \* its result, <<r, g, b>>
    prev_value,         \* argument of the call before it, -1 if none
    prev_color,         \* result of the call before it
    grid,               \* argument of _encode_png: [height, width, px]
    raw_data,           \* locals of _encode_png
    compressed,
    png_bytes,          \* its result
    encode_error,       \* the exception it raised, "none" if none
    calls,              \* how many calls have been made so far
    first_run,          \* the first compute-then-encode run: its arguments,
                        \* its grid, its bytes
    last_run,           \* the latest such run
    req,                \* the invocations of generate_spectrogram_png: for
                        \* each its position, arguments, stages and result
    stdout,             \* argument of the conversion in _decode_audio: the
                        \* decoder's output bytes
    decoded,            \* its result: the samples, in units of 1/32768
    decoded_duration,   \* len(samples) / sample_rate, in ticks
    decode_error,       \* the exception it raised, "none" if none
    files,              \* the audio files there are on disk
    http                \* the requests to the spectrogram endpoints: for
                        \* each its position, arguments and response

\* What a call of _compute_spectrogram sets.
computeVars == <<samples, buffer_after, duration, max_duration, num_frames, display_width,
                 display_height, spectrogram_width, frame_step, magnitudes,
                 max_magnitude, min_db, actual_cols, image, error>>

\* What a call of _get_color_for_value sets.
colorVars == <<value, color, prev_value, prev_color>>

\* What a call of _encode_png sets.
encodeVars == <<grid, raw_data, compressed, png_bytes, encode_error>>

\* The record of calls made one after another.
repeatVars == <<calls, first_run, last_run>>

\* The coroutines of generate_spectrogram_png.
serviceVars == <<req>>

\* What the conversion of the decoder's output sets.
decodeVars == <<stdout, decoded, decoded_duration, decode_error>>

\* The disk and the endpoints' requests.
apiVars == <<files, http>>

vars == <<pc, computeVars, colorVars, encodeVars, repeatVars, serviceVars,
          apiVars, decodeVars>>

(***************************************************************************)
(* Program constants.                                                      *)
(***************************************************************************)
FFT_SIZE == 1024

HOP_SIZE == 256

MAX_WIDTH == 800

MAX_HEIGHT == 200

BG_COLOR == <<10, 0, 30>>

SAMPLE_RATE == 44100

\* 20 * log10(0 + 1e-10): the dB value of a bin of magnitude 0.
DbFloor == -200

\* The fixed dynamic range: min_db = max_magnitude - 80.
DynamicRange == 80

(***************************************************************************)
(* Bounds of the model.                                                    *)
(***************************************************************************)
\* Buffers of 0..MaxShort samples are analysed.
MaxShort == 2

\* Buffers of MAX_WIDTH - 1 .. MAX_WIDTH + MaxOverWidth frames are analysed.
MaxOverWidth == 1

\* A second call of _get_color_for_value raises the value by 1 .. MaxStep units.
MaxStep == 2

Max(a, b) == IF a >= b THEN a ELSE b

Min(a, b) == IF a <= b THEN a ELSE b

\* Python's int() of the quotient n / d (d # 0): truncation toward zero.
IntOfQuotient(n, d) ==
    LET nn == IF d < 0 THEN -n ELSE n
        dd == IF d < 0 THEN -d ELSE d
    IN  IF nn >= 0 THEN nn \div dd ELSE -((-nn) \div dd)

(***************************************************************************)
(* _get_color_for_value                                                    *)
(***************************************************************************)
\* The unit of v = value ** 0.7: v is VUnit-ths.
VUnit == 10000000

\* 0.25 in units of 1/VUnit: the width of a colour segment.
Quarter == VUnit \div 4

\* Pow07Table[k + 1] = floor(VUnit * (k / NormScale) ** 0.7), k = 0..NormScale.
Pow07Table ==
  <<
     0, 92861, 150854, 200365, 245063, 286494, 325493, 362581, 398107, 432321,
     465411, 497521, 528766, 559238, 589015, 618159, 646727, 674762, 702308, 729397,
     756063, 782330, 808226, 833770, 858983, 883883, 908486, 932806, 956858, 980653,
     1004203, 1027519, 1050611, 1073486, 1096155, 1118625, 1140903, 1162995, 1184910, 1206652,
     1228228, 1249642, 1270900, 1292007, 1312967, 1333784, 1354464, 1375008, 1395422, 1415709,
     1435872, 1455915, 1475840, 1495650, 1515348, 1534938, 1554420, 1573799, 1593076, 1612253,
     1631333, 1650318, 1669210, 1688011, 1706722, 1725346, 1743884, 1762338, 1780710, 1799000,
     1817212, 1835345, 1853402, 1871384, 1889292, 1907128, 1924892, 1942587, 1960212, 1977770,
     1995262, 2012688, 2030049, 2047348, 2064583, 2081758, 2098871, 2115926, 2132921, 2149859,
     2166739, 2183564, 2200333, 2217047, 2233708, 2250316, 2266871, 2283374, 2299827, 2316229,
     2332582, 2348886, 2365141, 2381349, 2397509, 2413623, 2429691, 2445713, 2461691, 2477624,
     2493514, 2509360, 2525164, 2540925, 2556644, 2572322, 2587960, 2603557, 2619114, 2634631,
     2650109, 2665549, 2680951, 2696314, 2711640, 2726930, 2742182, 2757399, 2772579, 2787724,
     2802833, 2817908, 2832949, 2847955, 2862927, 2877866, 2892772, 2907645, 2922485, 2937293,
     2952069, 2966814, 2981527, 2996209, 3010861, 3025482, 3040072, 3054633, 3069164, 3083666,
     3098138, 3112582, 3126997, 3141383, 3155742, 3170072, 3184375, 3198650, 3212898, 3227119,
     3241313, 3255480, 3269621, 3283736, 3297825, 3311888, 3325926, 3339939, 3353926, 3367888,
     3381825, 3395738, 3409627, 3423491, 3437332, 3451148, 3464941, 3478710, 3492456, 3506179,
     3519879, 3533556, 3547210, 3560842, 3574452, 3588039, 3601604, 3615148, 3628670, 3642170,
     3655649, 3669106, 3682543, 3695958, 3709353, 3722727, 3736080, 3749413, 3762726, 3776018,
     3789291, 3802544, 3815776, 3828990, 3842183, 3855357, 3868513, 3881648, 3894765, 3907863,
     3920942, 3934003, 3947045, 3960068, 3973073, 3986060, 3999029, 4011980, 4024913, 4037828,
     4050726, 4063606, 4076468, 4089313, 4102141, 4114951, 4127745, 4140522, 4153281, 4166024,
     4178751, 4191460, 4204153, 4216830, 4229491, 4242135, 4254763, 4267375, 4279971, 4292551,
     4305116, 4317664, 4330198, 4342715, 4355217, 4367704, 4380176, 4392632, 4405073, 4417499,
     4429911, 4442307, 4454688, 4467055, 4479407, 4491745, 4504068, 4516377, 4528671, 4540951,
     4553217, 4565468, 4577706, 4589929, 4602139, 4614334, 4626516, 4638685, 4650839, 4662980,
     4675107, 4687221, 4699322, 4711409, 4723483, 4735544, 4747591, 4759626, 4771647, 4783656,
     4795651, 4807634, 4819604, 4831561, 4843506, 4855437, 4867357, 4879264, 4891158, 4903040,
     4914910, 4926767, 4938613, 4950446, 4962267, 4974076, 4985872, 4997657, 5009430, 5021192,
     5032941, 5044679, 5056405, 5068119, 5079822, 5091513, 5103193, 5114861, 5126518, 5138163,
     5149798, 5161420, 5173032, 5184633, 5196222, 5207801, 5219368, 5230924, 5242470, 5254005,
     5265528, 5277041, 5288543, 5300035, 5311516, 5322986, 5334446, 5345895, 5357333, 5368761,
     5380179, 5391586, 5402983, 5414370, 5425746, 5437113, 5448469, 5459815, 5471150, 5482476,
     5493792, 5505098, 5516394, 5527679, 5538956, 5550222, 5561478, 5572725, 5583962, 5595189,
     5606407, 5617615, 5628813, 5640002, 5651181, 5662351, 5673512, 5684663, 5695805, 5706937,
     5718060, 5729174, 5740279, 5751374, 5762460, 5773537, 5784605, 5795664, 5806714, 5817755,
     5828787, 5839810, 5850824, 5861829, 5872825, 5883813, 5894792, 5905762, 5916723, 5927675,
     5938619, 5949555, 5960481, 5971399, 5982309, 5993210, 6004102, 6014986, 6025862, 6036729,
     6047588, 6058438, 6069281, 6080115, 6090940, 6101757, 6112567, 6123368, 6134160, 6144945,
     6155722, 6166490, 6177250, 6188003, 6198747, 6209484, 6220212, 6230933, 6241645, 6252350,
     6263047, 6273736, 6284417, 6295091, 6305757, 6316415, 6327065, 6337708, 6348343, 6358970,
     6369590, 6380202, 6390807, 6401404, 6411994, 6422576, 6433150, 6443717, 6454277, 6464830,
     6475375, 6485912, 6496442, 6506965, 6517481, 6527990, 6538491, 6548985, 6559472, 6569951,
     6580424, 6590889, 6601347, 6611798, 6622242, 6632679, 6643109, 6653532, 6663948, 6674357,
     6684759, 6695154, 6705542, 6715923, 6726298, 6736665, 6747026, 6757380, 6767727, 6778067,
     6788401, 6798727, 6809047, 6819361, 6829668, 6839968, 6850261, 6860548, 6870828, 6881102,
     6891369, 6901629, 6911883, 6922130, 6932371, 6942606, 6952834, 6963055, 6973270, 6983479,
     6993681, 7003877, 7014067, 7024250, 7034427, 7044598, 7054762, 7064920, 7075072, 7085217,
     7095357, 7105490, 7115617, 7125738, 7135852, 7145961, 7156063, 7166159, 7176249, 7186333,
     7196411, 7206483, 7216549, 7226609, 7236663, 7246711, 7256753, 7266789, 7276819, 7286843,
     7296861, 7306874, 7316880, 7326881, 7336876, 7346865, 7356848, 7366825, 7376797, 7386762,
     7396722, 7406677, 7416625, 7426568, 7436505, 7446437, 7456362, 7466282, 7476197, 7486106,
     7496009, 7505906, 7515798, 7525685, 7535566, 7545441, 7555311, 7565175, 7575034, 7584887,
     7594735, 7604577, 7614414, 7624245, 7634071, 7643892, 7653707, 7663517, 7673321, 7683120,
     7692914, 7702702, 7712485, 7722263, 7732035, 7741802, 7751564, 7761320, 7771072, 7780818,
     7790559, 7800294, 7810025, 7819750, 7829470, 7839185, 7848894, 7858599, 7868298, 7877993,
     7887682, 7897366, 7907045, 7916719, 7926388, 7936051, 7945710, 7955364, 7965013, 7974656,
     7984295, 7993929, 8003558, 8013181, 8022800, 8032414, 8042023, 8051627, 8061226, 8070821,
     8080410, 8089994, 8099574, 8109149, 8118719, 8128284, 8137844, 8147400, 8156950, 8166496,
     8176037, 8185574, 8195105, 8204632, 8214154, 8223671, 8233184, 8242692, 8252195, 8261694,
     8271188, 8280677, 8290161, 8299641, 8309116, 8318587, 8328053, 8337514, 8346971, 8356423,
     8365871, 8375314, 8384753, 8394187, 8403616, 8413041, 8422461, 8431877, 8441288, 8450695,
     8460097, 8469495, 8478889, 8488278, 8497662, 8507042, 8516418, 8525789, 8535156, 8544518,
     8553876, 8563230, 8572579, 8581924, 8591265, 8600601, 8609932, 8619260, 8628583, 8637902,
     8647217, 8656527, 8665833, 8675134, 8684432, 8693725, 8703014, 8712298, 8721579, 8730855,
     8740127, 8749395, 8758658, 8767917, 8777173, 8786424, 8795670, 8804913, 8814151, 8823386,
     8832616, 8841842, 8851064, 8860282, 8869495, 8878705, 8887910, 8897112, 8906309, 8915503,
     8924692, 8933877, 8943058, 8952235, 8961408, 8970577, 8979742, 8988903, 8998060, 9007213,
     9016362, 9025507, 9034648, 9043785, 9052919, 9062048, 9071173, 9080294, 9089412, 9098525,
     9107635, 9116741, 9125842, 9134940, 9144034, 9153124, 9162211, 9171293, 9180372, 9189446,
     9198517, 9207584, 9216648, 9225707, 9234763, 9243814, 9252862, 9261907, 9270947, 9279984,
     9289016, 9298046, 9307071, 9316093, 9325110, 9334125, 9343135, 9352142, 9361145, 9370144,
     9379139, 9388131, 9397119, 9406104, 9415085, 9424062, 9433035, 9442005, 9450971, 9459934,
     9468893, 9477848, 9486799, 9495747, 9504692, 9513633, 9522570, 9531503, 9540433, 9549360,
     9558283, 9567202, 9576118, 9585030, 9593938, 9602844, 9611745, 9620643, 9629538, 9638428,
     9647316, 9656200, 9665080, 9673957, 9682831, 9691701, 9700567, 9709430, 9718290, 9727146,
     9735998, 9744848, 9753693, 9762536, 9771375, 9780210, 9789042, 9797871, 9806696, 9815518,
     9824336, 9833151, 9841963, 9850771, 9859576, 9868377, 9877175, 9885970, 9894762, 9903550,
     9912335, 9921116, 9929894, 9938669, 9947440, 9956208, 9964973, 9973735, 9982493, 9991248,
     10000000
  >>

\* The unit of a normalized magnitude: value is NormScale-ths.
NormScale == Len(Pow07Table) - 1

\* v = value ** 0.7
Pow07(val) == Pow07Table[val + 1]

\* Channel as it would be with rounding to nearest in place of int().
ChannelRounded(a, b, tnum) ==
    (a * Quarter + b * tnum + Quarter \div 2) \div Quarter

\* int(a + b * t) for t = tnum / Quarter and a + b * t >= 0.
Channel(a, b, tnum) == (a * Quarter + b * tnum) \div Quarter

\* GetColorForValue as it would be with red and blue exchanged in the third
\* segment.
GetColorForValueSwapped(val) ==
    LET v == Pow07(val)
    IN  IF v < Quarter
        THEN LET t == v
             IN  <<Channel(10, 50, t), Channel(0, 10, t), Channel(30, 70, t)>>
        ELSE IF v < 2 * Quarter
        THEN LET t == v - Quarter
             IN  <<Channel(60, 140, t), Channel(10, 30, t), Channel(100, 50, t)>>
        ELSE IF v < 3 * Quarter
        THEN LET t == v - 2 * Quarter
             IN  <<Channel(150, -100, t), Channel(40, 100, t), Channel(200, 55, t)>>
        ELSE LET t == v - 3 * Quarter
             IN  <<255, Channel(140, 115, t), Channel(50, 150, t)>>

GetColorForValue(val) ==
    LET v == Pow07(val)
    IN  IF v < Quarter
        THEN LET t == v
             IN  <<Channel(10, 50, t), Channel(0, 10, t), Channel(30, 70, t)>>
        ELSE IF v < 2 * Quarter
        THEN LET t == v - Quarter
             IN  <<Channel(60, 140, t), Channel(10, 30, t), Channel(100, 50, t)>>
        ELSE IF v < 3 * Quarter
        THEN LET t == v - 2 * Quarter
             IN  <<Channel(200, 55, t), Channel(40, 100, t), Channel(150, -100, t)>>
        ELSE LET t == v - 3 * Quarter
             IN  <<255, Channel(140, 115, t), Channel(50, 150, t)>>

(***************************************************************************)
(* The Sample Buffer and the analysis frames                               *)
(***************************************************************************)
\* samples[i]: the buffer holds amp from index onset on, and 0 before.
SampleAt(s, i) == IF i >= s.onset THEN s.amp ELSE 0

\* _hann_window: only whether a weight is zero is kept; 0.5 * (1 - cos(2 pi i
\* / (size - 1))) is zero exactly at i = 0 and i = size - 1.
HannIsZero(i) == i = 0 \/ i = FFT_SIZE - 1

\* Available as it would be without the zero-padding branch.
AvailableUnpadded(s, frame_idx) == FFT_SIZE

\* The number of buffer samples copied into the frame at frame_idx: all
\* FFT_SIZE when the frame ends inside the buffer, else what is left of the
\* buffer from start_sample on (none when that is not positive).
Available(s, frame_idx) ==
    LET start_sample == frame_idx * HOP_SIZE
        end_sample   == start_sample + FFT_SIZE
    IN  IF end_sample <= s.len
        THEN FFT_SIZE
        ELSE Max(0, s.len - start_sample)

\* frame[i]: <<sample, i>> stands for samples[start_sample + i] * window[i],
\* <<0, i>> past the copied samples is the zero of np.zeros.
FrameEntry(s, row, i) ==
    IF i < row.available
    THEN <<SampleAt(s, row.frame_idx * HOP_SIZE + i), i>>
    ELSE <<0, i>>

EntryIsZero(e) == e[1] = 0 \/ HannIsZero(e[2])

FrameIsZero(s, row) ==
    \A i \in 0 .. FFT_SIZE - 1 : EntryIsZero(FrameEntry(s, row, i))

NumBins == FFT_SIZE \div 2

DisplayHeight == Min(NumBins, MAX_HEIGHT)

UseBins == Min(NumBins, DisplayHeight * 2)

\* The dB spectrum of a frame that is not all zero: a peak at bin 100 falling
\* 2 dB per bin, never below DbFloor; 40 dB at the peak for a full frame and
\* 20 dB for a zero-padded one.
SpectrumDb(bin, full) ==
    LET level == IF full THEN 40 ELSE 20
        dist  == IF bin >= 100 THEN bin - 100 ELSE 100 - bin
    IN  Max(DbFloor, level - 2 * dist)

\* db = 20 * log10(abs(rfft(frame)[:use_bins]) + 1e-10) for the three kinds of
\* frame: all zero, full, zero-padded.
SilentDb == [bin \in 0 .. UseBins - 1 |-> DbFloor]

FullDb == [bin \in 0 .. UseBins - 1 |-> SpectrumDb(bin, TRUE)]

PaddedDb == [bin \in 0 .. UseBins - 1 |-> SpectrumDb(bin, FALSE)]

\* The Magnitude Row of the frame at frame_idx (lines 176-197): the row is kept
\* as what decides its dB values: whether the frame is all zero, and whether
\* it is full.
MagnitudeRow(s, frame_idx) ==
    LET row == [frame_idx |-> frame_idx, available |-> Available(s, frame_idx)]
    IN  [frame_idx |-> frame_idx,
         available |-> row.available,
         silent    |-> FrameIsZero(s, row)]

\* The dB values of a Magnitude Row.
RowValues(row) ==
    IF row.silent
    THEN SilentDb
    ELSE IF row.available = FFT_SIZE THEN FullDb ELSE PaddedDb

\* db[bin] of a Magnitude Row.
RowDb(row, bin) == RowValues(row)[bin]

\* len(db) = use_bins.
RowLen(row) == UseBins

RECURSIVE MaxOver(_, _, _)
\* The largest of db[lo .. hi], by halving (the evaluation stays shallow).
MaxOver(db, lo, hi) ==
    IF lo = hi
    THEN db[lo]
    ELSE Max(MaxOver(db, lo, (lo + hi) \div 2),
             MaxOver(db, (lo + hi) \div 2 + 1, hi))

\* np.max(db) of the three kinds of row.
SilentMax == MaxOver(SilentDb, 0, UseBins - 1)

FullMax == MaxOver(FullDb, 0, UseBins - 1)

PaddedMax == MaxOver(PaddedDb, 0, UseBins - 1)

\* frame_max = np.max(db)
FrameMax(row) ==
    IF row.silent
    THEN SilentMax
    ELSE IF row.available = FFT_SIZE THEN FullMax ELSE PaddedMax

(***************************************************************************)
(* _compute_spectrogram                                                    *)
(***************************************************************************)
\* NumFrames as it would be without counting the first frame.
NumFramesNoFirst(n) == Max(1, (n - FFT_SIZE) \div HOP_SIZE)

\* NumFrames as it would be if a last, partial hop counted as a frame.
NumFramesPartial(n) ==
    Max(1, (n - FFT_SIZE + HOP_SIZE - 1) \div HOP_SIZE + 1)

NumFrames(n) == Max(1, (n - FFT_SIZE) \div HOP_SIZE + 1)

\* DurationRatio as it would be without the test max_duration > 0.
DurationRatioAnySign(d, m) ==
    IF m.given /\ m.val # 0 THEN <<d, m.val>> ELSE <<1, 1>>

\* duration_ratio as the pair <<numerator, denominator>>.
DurationRatio(d, m) ==
    IF m.given /\ m.val # 0 /\ m.val > 0 THEN <<d, m.val>> ELSE <<1, 1>>

\* BaseWidth as it would be without the cap at MAX_WIDTH.
BaseWidthUncapped(nf) == nf

BaseWidth(nf) == Min(nf, MAX_WIDTH)

\* SpectrogramWidth as it would be without the scaling by duration_ratio.
SpectrogramWidthUnscaled(bw, ratio) == Max(1, bw)

SpectrogramWidth(bw, ratio) ==
    Max(1, IntOfQuotient(bw * ratio[1], ratio[2]))

\* FrameStep as it would be if the quotient were rounded up.
FrameStepCeil(nf, sw) == Max(1, (nf + sw - 1) \div sw)

FrameStep(nf, sw) == Max(1, nf \div sw)

\* len(range(0, num_frames, frame_step))
FrameCount(nf, step) == (nf + step - 1) \div step

\* The j-th frame index of range(0, num_frames, frame_step), j = 1, 2, ...
FrameIndex(j, step) == (j - 1) * step

\* The analysis loop (lines 172-200): one Magnitude Row per iterated frame.
Magnitudes(s, nf, step) ==
    [j \in 1 .. FrameCount(nf, step) |-> MagnitudeRow(s, FrameIndex(j, step))]

\* BufferAfterFrame as it would be if the frame were windowed and padded in
\* the buffer itself: window[0] = 0 zeroes samples[start_sample], and the
\* padding lengthens the buffer to end_sample.
BufferAfterFrameInPlace(s, frame_idx) ==
    LET start_sample == frame_idx * HOP_SIZE
        end_sample   == start_sample + FFT_SIZE
    IN  IF end_sample <= s.len
        THEN [s EXCEPT !.onset = Max(s.onset, start_sample + 1)]
        ELSE [s EXCEPT !.len = end_sample]

\* The buffer after the frame at frame_idx was taken (lines 176-187): the
\* product samples[start_sample:end_sample] * window is a new array, and the
\* padded frame is a new np.zeros array that alone is written.
BufferAfterFrame(s, frame_idx) == s

RECURSIVE BufferAfterRows(_, _, _, _)
\* The buffer after the iterations lo .. hi of the analysis loop, by halving.
BufferAfterRows(s, step, lo, hi) ==
    IF lo > hi
    THEN s
    ELSE IF lo = hi
    THEN BufferAfterFrame(s, FrameIndex(lo, step))
    ELSE LET first == BufferAfterRows(s, step, lo, (lo + hi) \div 2)
         IN  IF first.len >= 0
             THEN BufferAfterRows(first, step, (lo + hi) \div 2 + 1, hi)
             ELSE first

\* The buffer after the analysis loop; nothing after the loop uses it.
BufferAfter(s, nf, step) == BufferAfterRows(s, step, 1, FrameCount(nf, step))

\* -np.inf: below every dB value (all are >= DbFloor).
NegInf == DbFloor - 1

RECURSIVE RunningMax(_, _, _)
\* What the updates "if frame_max > max_magnitude: max_magnitude = frame_max"
\* of rows lo .. hi make of a max_magnitude of -inf, by halving.
RunningMax(mags, lo, hi) ==
    IF lo > hi
    THEN NegInf
    ELSE IF lo = hi
    THEN LET frame_max == FrameMax(mags[lo])
         IN  IF frame_max > NegInf THEN frame_max ELSE NegInf
    ELSE LET left  == RunningMax(mags, lo, (lo + hi) \div 2)
             right == RunningMax(mags, (lo + hi) \div 2 + 1, hi)
         IN  IF right > left THEN right ELSE left

\* MaxMagnitude as it would be if max_magnitude were not set to -inf before
\* the loop but kept what an earlier call left in it.
MaxMagnitudeKept(mags) ==
    LET m == RunningMax(mags, 1, Len(mags))
    IN  IF m > max_magnitude THEN m ELSE max_magnitude

\* MaxMagnitude as it would be if the last row were left out of the running
\* maximum.
MaxMagnitudeButLast(mags) == RunningMax(mags, 1, Len(mags) - 1)

\* max_magnitude after the analysis loop.
MaxMagnitude(mags) == RunningMax(mags, 1, Len(mags))

MinDb(maxmag) == maxmag - DynamicRange

\* ActualCols as it would be without the bound spectrogram_width.
ActualColsAllRows(mags, sw) == Len(mags)

ActualCols(mags, sw) == Min(Len(mags), sw)

\* A column of the grid: as initialised (background), or as the fill loop
\* wrote it from one Magnitude Row.
BgColumn == [rendered |-> FALSE, row |-> [frame_idx |-> 0, available |-> 0, silent |-> TRUE]]

RenderedColumn(row) == [rendered |-> TRUE, row |-> row]

\* Normalized as it would be without the 1e-10 in the denominator.
NormalizedNoEpsilon(db, mindb, maxmag) ==
    LET num == db - mindb
        den == maxmag - mindb
    IN  IF num <= 0
        THEN 0
        ELSE Min(NormScale, (NormScale * num) \div den)

\* max(0.0, min(1.0, (db - min_db) / (max_magnitude - min_db + 1e-10))) in
\* units of 1/NormScale, truncated: the 1e-10 lowers a positive quotient by
\* less than one unit, so an exact multiple of the unit falls to the unit below.
Normalized(db, mindb, maxmag) ==
    LET num == db - mindb
        den == maxmag - mindb
    IN  IF num <= 0
        THEN 0
        ELSE Min(NormScale, (NormScale * num - 1) \div den)

\* BinIdx as it would be without the flip that puts low frequencies at the
\* bottom.
BinIdxUnflipped(r, h, len) == Min(IntOfQuotient(r * len, h), len - 1)

\* bin_idx of an output row (lines 218-219).
BinIdx(r, h, len) == Min(IntOfQuotient((h - 1 - r) * len, h), len - 1)

\* The colour the fill loop writes at image[r, col] for a Magnitude Row.
RenderedPixel(row, r, h, mindb, maxmag) ==
    LET db == RowDb(row, BinIdx(r, h, RowLen(row)))
    IN  GetColorForValue(Normalized(db, mindb, maxmag))

\* image[r, c] of a grid.
Pixel(img, r, c, mindb, maxmag) ==
    IF img.cols[c].rendered
    THEN RenderedPixel(img.cols[c].row, r, img.height, mindb, maxmag)
    ELSE BG_COLOR

\* The grid after the fill loop over range(ncols) (lines 206-227).
FilledImage(h, w, mags, ncols) ==
    [height |-> h,
     width  |-> w,
     cols   |-> [c \in 0 .. w - 1 |->
                    IF c < ncols THEN RenderedColumn(mags[c + 1]) ELSE BgColumn]]

NoImage == [height |-> 0, width |-> 0, cols |-> <<>>]

\* What _compute_spectrogram(s, m, d) does as one value: whether it raises
\* (a write beyond the grid's last column) and the grid it returns.
ComputeResult(s, m, d) ==
    LET nf   == NumFrames(s.len)
        dw   == BaseWidth(nf)
        sw   == SpectrogramWidth(dw, DurationRatio(d, m))
        mags == Magnitudes(s, nf, FrameStep(nf, sw))
        mx   == MaxMagnitude(mags)
        ac   == ActualCols(mags, sw)
    IN  IF \E col \in 0 .. ac - 1 : col >= dw
        THEN [raised |-> TRUE, image |-> NoImage, min_db |-> MinDb(mx),
              max_magnitude |-> mx]
        ELSE [raised |-> FALSE,
              image |-> FilledImage(DisplayHeight, dw, mags, ac),
              min_db |-> MinDb(mx), max_magnitude |-> mx]

\* The grid pixel by pixel, as the array _compute_spectrogram returns.
GridOf(img, mindb, maxmag) ==
    [height |-> img.height,
     width  |-> img.width,
     px     |-> [r \in 0 .. img.height - 1 |-> [c \in 0 .. img.width - 1 |->
                   Pixel(img, r, c, mindb, maxmag)]]]

(***************************************************************************)
(* _decode_audio: the conversion of the decoder's output (lines 104-109)   *)
(* and the duration generate_spectrogram_png derives from it (line 286).   *)
(* A sample is kept as its numerator over 32768.                           *)
(***************************************************************************)
\* The divisor of line 107.
SampleScale == 32768

\* The sample rate _decode_audio returns (line 109).
ReturnedRate == 44100

\* Int16 as it would be if the two bytes were read as an unsigned number.
Int16Unsigned(lo, hi) == lo + 256 * hi

\* One element of np.frombuffer(stdout, dtype=np.int16): two bytes, the low
\* one first, as a two's-complement number.
Int16(lo, hi) ==
    IF lo + 256 * hi >= 32768 THEN lo + 256 * hi - 65536 ELSE lo + 256 * hi

\* np.frombuffer(stdout, dtype=np.int16).astype(np.float32) / 32768.0, each
\* sample as its numerator over SampleScale: the division by a power of two
\* is exact in float32.
DecodeSamples(bytes) ==
    [k \in 1 .. Len(bytes) \div 2 |-> Int16(bytes[2 * k - 1], bytes[2 * k])]

\* len(samples) / sample_rate in ticks of 1 / SAMPLE_RATE s.
DurationTicks(n, rate) == (n * SAMPLE_RATE) \div rate

(***************************************************************************)
(* _encode_png                                                             *)
(*                                                                         *)
(* Bytes are integers 0..255 and byte strings are sequences of them.  A    *)
(* 32-bit word is the pair <<high 16 bits, low 16 bits>>.  zlib.compress   *)
(* is kept as a zlib stream of stored deflate blocks: which blocks the     *)
(* library chooses at level 9 is not modelled, only that the stream        *)
(* carries the raw data and its Adler-32 in zlib's framing.                *)
(***************************************************************************)
\* The exclusive or of two 4-bit numbers, bit by bit.
XorBits(a, b, n) ==
    LET bit(x, k) == (x \div (2 ^ k)) % 2
    IN  IF n = 4
        THEN   ((bit(a, 0) + bit(b, 0)) % 2)
             + ((bit(a, 1) + bit(b, 1)) % 2) * 2
             + ((bit(a, 2) + bit(b, 2)) % 2) * 4
             + ((bit(a, 3) + bit(b, 3)) % 2) * 8
        ELSE 0

XorNibble == [a \in 0 .. 15 |-> [b \in 0 .. 15 |-> XorBits(a, b, 4)]]

Xor8(a, b) ==
    XorNibble[a % 16][b % 16] + 16 * XorNibble[a \div 16][b \div 16]

Xor16(a, b) == Xor8(a % 256, b % 256) + 256 * Xor8(a \div 256, b \div 256)

\* One bit of the CRC-32 table computation: c >> 1, exclusive-or'ed with the
\* polynomial 0xEDB88320 when c is odd.
CrcShift(c) ==
    LET hi == c[1] \div 2
        lo == (c[2] \div 2) + (c[1] % 2) * 32768
    IN  IF c[2] % 2 = 1
        THEN <<Xor16(hi, 60856), Xor16(lo, 33568)>>
        ELSE <<hi, lo>>

\* The CRC-32 table of zlib.crc32: entry n is n shifted eight times.
CrcTable ==
    [n \in 0 .. 255 |->
        CrcShift(CrcShift(CrcShift(CrcShift(
        CrcShift(CrcShift(CrcShift(CrcShift(<<0, n>>))))))))]

\* The CRC register after one more byte.
CrcByte(c, byte) ==
    LET entry == CrcTable[Xor8(c[2] % 256, byte)]
        hi    == c[1] \div 256
        lo    == (c[2] \div 256) + (c[1] % 256) * 256
    IN  <<Xor16(hi, entry[1]), Xor16(lo, entry[2])>>

RECURSIVE CrcRange(_, _, _, _)
\* The CRC register c after bytes[lo .. hi], by halving: the register after
\* the first half is computed before the second half starts from it.
CrcRange(bytes, lo, hi, c) ==
    IF lo > hi
    THEN c
    ELSE IF lo = hi
    THEN CrcByte(c, bytes[lo])
    ELSE LET first == CrcRange(bytes, lo, (lo + hi) \div 2, c)
         IN  IF first[1] >= 0
             THEN CrcRange(bytes, (lo + hi) \div 2 + 1, hi, first)
             ELSE first

\* zlib.crc32(bytes) & 0xffffffff as a word.
Crc32(bytes) ==
    LET c == CrcRange(bytes, 1, Len(bytes), <<65535, 65535>>)
    IN  <<Xor16(c[1], 65535), Xor16(c[2], 65535)>>

\* struct.pack('>I', n) accepts 0 <= n <= 0xffffffff and raises struct.error
\* otherwise; PackFitsNonZero is the range without 0.
PackFitsNonZero(n) == n >= 1 /\ n \div 65536 <= 65535

PackFits(n) == n >= 0 /\ n \div 65536 <= 65535

\* struct.pack('>I', word): four bytes, most significant first.
PackWord(w) == <<w[1] \div 256, w[1] % 256, w[2] \div 256, w[2] % 256>>

\* struct.pack('>I', n) of a number.
PackU32(n) == PackWord(<<n \div 65536, n % 65536>>)

\* png_chunk as it would be with the CRC taken over the data alone.
PngChunkCrcOfData(chunk_type, data) ==
    PackU32(Len(data)) \o chunk_type \o data \o PackWord(Crc32(data))

\* png_chunk(chunk_type, data), lines 239-242.
PngChunk(chunk_type, data) ==
    LET chunk_len == PackU32(Len(data))
        chunk_crc == PackWord(Crc32(chunk_type \o data))
    IN  chunk_len \o chunk_type \o data \o chunk_crc

\* b'\x89PNG\r\n\x1a\n'
Signature == <<137, 80, 78, 71, 13, 10, 26, 10>>

\* b'IHDR', b'IDAT', b'IEND'
TagIHDR == <<73, 72, 68, 82>>

TagIDAT == <<73, 68, 65, 84>>

TagIEND == <<73, 69, 78, 68>>

\* IhdrData as it would be with height packed before width.
IhdrDataSwapped(width, height) ==
    PackU32(height) \o PackU32(width) \o <<8, 2, 0, 0, 0>>

\* struct.pack('>IIBBBBB', width, height, 8, 2, 0, 0, 0)
IhdrData(width, height) ==
    PackU32(width) \o PackU32(height) \o <<8, 2, 0, 0, 0>>

RECURSIVE RowBytesReversed(_, _, _, _)
\* RowBytes as it would be with the columns taken right to left.
RowBytesReversed(g, row, lo, hi) ==
    IF lo > hi
    THEN <<>>
    ELSE g.px[row][hi] \o RowBytesReversed(g, row, lo, hi - 1)

RECURSIVE RowBytes(_, _, _, _)
\* image[row].tobytes() for columns lo .. hi: the pixels' R, G, B in column
\* order, by halving.
RowBytes(g, row, lo, hi) ==
    IF lo > hi
    THEN <<>>
    ELSE IF lo = hi
    THEN g.px[row][lo]
    ELSE RowBytes(g, row, lo, (lo + hi) \div 2)
         \o RowBytes(g, row, (lo + hi) \div 2 + 1, hi)

\* Scanline as it would be with the filter byte after the row's pixels.
ScanlineFilterLast(g, row) == RowBytes(g, row, 0, g.width - 1) \o <<0>>

\* What one pass of the scanline loop appends to raw_data (lines 254-255).
Scanline(g, row) == <<0>> \o RowBytes(g, row, 0, g.width - 1)

RECURSIVE RawRows(_, _, _)
\* raw_data after the passes for rows lo .. hi, by halving.
RawRows(g, lo, hi) ==
    IF lo > hi
    THEN <<>>
    ELSE IF lo = hi
    THEN Scanline(g, lo)
    ELSE RawRows(g, lo, (lo + hi) \div 2)
         \o RawRows(g, (lo + hi) \div 2 + 1, hi)

\* raw_data after the loop over range(height), lines 252-255.
RawData(g) == RawRows(g, 0, g.height - 1)

\* The Adler-32 sums <<a, b>> after one more byte.
AdlerByte(ab, byte) ==
    LET a == (ab[1] + byte) % 65521
    IN  <<a, (ab[2] + a) % 65521>>

RECURSIVE AdlerRange(_, _, _, _)
\* The Adler-32 sums after bytes[lo .. hi], by halving: the sums after the
\* first half are computed before the second half starts from them.
AdlerRange(bytes, lo, hi, ab) ==
    IF lo > hi
    THEN ab
    ELSE IF lo = hi
    THEN AdlerByte(ab, bytes[lo])
    ELSE LET first == AdlerRange(bytes, lo, (lo + hi) \div 2, ab)
         IN  IF first[1] >= 0
             THEN AdlerRange(bytes, (lo + hi) \div 2 + 1, hi, first)
             ELSE first

\* The Adler-32 of bytes as a word: b in the high half, a in the low half.
Adler32(bytes) ==
    LET ab == AdlerRange(bytes, 1, Len(bytes), <<1, 0>>)
    IN  <<ab[2], ab[1]>>

\* The largest stored deflate block.
StoredMax == 65535

RECURSIVE StoredBlocks(_, _)
\* bytes[from ..] as stored deflate blocks: the final-block flag, LEN and its
\* complement NLEN (least significant byte first), then the bytes.
StoredBlocks(bytes, from) ==
    LET left  == Len(bytes) - from + 1
        n     == IF left > StoredMax THEN StoredMax ELSE left
        final == IF left > StoredMax THEN 0 ELSE 1
        block == <<final, n % 256, n \div 256,
                   255 - (n % 256), 255 - (n \div 256)>>
                 \o SubSeq(bytes, from, from + n - 1)
    IN  IF final = 1 THEN block ELSE block \o StoredBlocks(bytes, from + n)

\* The length of the stream Compress makes of n bytes: the 2-byte header, 5
\* bytes per stored block, the bytes, the 4-byte Adler-32.
CompressedLen(n) ==
    2 + 5 * (IF n = 0 THEN 1 ELSE (n + StoredMax - 1) \div StoredMax) + n + 4

\* zlib.compress(raw_data, 9): the zlib header of level 9 (0x78 0xDA), the
\* deflate blocks, the Adler-32 of the raw data.
Compress(raw) ==
    <<120, 218>> \o StoredBlocks(raw, 1) \o PackWord(Adler32(raw))

\* PngStream as it would be with a gamma chunk after the header.
PngStreamWithGamma(width, height, data) ==
    Signature
    \o PngChunk(TagIHDR, IhdrData(width, height))
    \o PngChunk(<<103, 65, 77, 65>>, PackU32(45455))
    \o PngChunk(TagIDAT, data)
    \o PngChunk(TagIEND, <<>>)

\* signature + ihdr + idat + iend, lines 246-263, for the compressed data.
PngStream(width, height, data) ==
    LET ihdr == PngChunk(TagIHDR, IhdrData(width, height))
        idat == PngChunk(TagIDAT, data)
        iend == PngChunk(TagIEND, <<>>)
    IN  Signature \o ihdr \o idat \o iend

\* The bytes _encode_png returns for a grid, lines 237-263.
EncodePngBytes(g) == PngStream(g.width, g.height, Compress(RawData(g)))

\* Whether a struct.pack of _encode_png raises: the header's width and
\* height, and the length of each chunk's data (the header's, the compressed
\* data's of data_len bytes, the empty end chunk's).
EncodeRaises(width, height, data_len) ==
    \/ ~PackFits(width)
    \/ ~PackFits(height)
    \/ ~PackFits(Len(IhdrData(width, height)))
    \/ ~PackFits(data_len)
    \/ ~PackFits(Len(<<>>))

(***************************************************************************)
(* Inputs                                                                  *)
(***************************************************************************)
None == [given |-> FALSE, val |-> 0]

Some(x) == [given |-> TRUE, val |-> x]

ShortCounts == (0 .. MaxShort) \cup {500, 1023, 1024, 1279, 1280, 44100}

LongCounts ==
    {FFT_SIZE + HOP_SIZE * (MAX_WIDTH - 1 + k) : k \in -1 .. MaxOverWidth}

\* Silence, a full-scale tone, and a tone that sets in after 2048 samples.
Signals == {[onset |-> 0, amp |-> 0], [onset |-> 0, amp |-> 16384],
            [onset |-> 2048, amp |-> 16384]}

\* One second of silence with a tone setting in so late that of the frames
\* 0, 2, ..., 168 only the last holds it.
LateTone == [len |-> 44100, onset |-> 43776, amp |-> 16384]

Buffers ==
    {[len |-> n, onset |-> g.onset, amp |-> g.amp] :
        n \in ShortCounts, g \in Signals}
    \cup {[len |-> n, onset |-> 0, amp |-> -32768] : n \in LongCounts}
    \cup {LateTone}

Durations(s) == {0, s.len, SAMPLE_RATE}

\* Grids handed to _encode_png: every grid of up to MaxGridH rows and
\* MaxGridW columns over two colours.
MaxGridH == 2

MaxGridW == 2

Palette == {<<255, 0, 0>>, <<1, 2, 3>>}

NoGrid == [height |-> 0, width |-> 0, px |-> <<>>]

\* The 1 x 1 grid whose pixel is (255, 0, 0).
RedGrid ==
    [height |-> 1, width |-> 1,
     px |-> [r \in {0} |-> [c \in {0} |-> <<255, 0, 0>>]]]

\* Calls made one after another on the one service object: how many, and
\* the buffers (of one and two frames) and max_duration they are made with.
MaxCalls == 5

RepeatBuffers ==
    {[len |-> 1, onset |-> 0, amp |-> 0],
     [len |-> FFT_SIZE, onset |-> 0, amp |-> 16384],
     [len |-> FFT_SIZE + HOP_SIZE, onset |-> 0, amp |-> 16384]}

RepeatMaxDurations == {None, Some(SAMPLE_RATE)}

NoRun == [n |-> 0, samples |-> [len |-> 0, onset |-> 0, amp |-> 0],
          duration |-> 0, max_duration |-> None, grid |-> NoGrid,
          png |-> <<>>]

\* Invocations of generate_spectrogram_png in flight together, the audio
\* files they name, and what the decoder makes of each file: its exit status
\* and the samples on its standard output.
NumRequests == 2

Requests == 1 .. NumRequests

AudioFiles == {"tone", "long", "corrupt", "missing"}

\* Path(audio_path).exists()
FileExists(f) == f \in files

\* What ffmpeg makes of a file: two frames of a tone, 801 frames of a tone,
\* or an error for a file it cannot read or does not find.
DecoderOutput(f) ==
    IF ~FileExists(f)
    THEN [returncode |-> 1, stderr |-> "No such file or directory",
          pcm |-> [len |-> 0, onset |-> 0, amp |-> 0]]
    ELSE IF f = "tone"
    THEN [returncode |-> 0, stderr |-> "",
          pcm |-> [len |-> FFT_SIZE + HOP_SIZE, onset |-> 0, amp |-> 16384]]
    ELSE IF f = "long"
    THEN [returncode |-> 0, stderr |-> "",
          pcm |-> [len |-> FFT_SIZE + HOP_SIZE * MAX_WIDTH, onset |-> 0,
                   amp |-> 16384]]
    ELSE [returncode |-> 1,
          stderr |-> "Invalid data found when processing input",
          pcm |-> [len |-> 0, onset |-> 0, amp |-> 0]]

ServiceCalls ==
    {<<"tone", None>>, <<"tone", Some(SAMPLE_RATE)>>, <<"corrupt", None>>,
     <<"missing", None>>}

NewRequest ==
    [rpc |-> "new", audio_path |-> "", max_duration |-> None,
     ffmpeg_found |-> TRUE, stages |-> <<>>, error |-> "none",
     message |-> "", png_bytes |-> <<>>, duration |-> 0]

\* Decoder outputs handed to the conversion: every byte string of up to
\* MaxPcm samples (and the odd lengths between) over four byte values, and
\* one second of a constant sample 0x4000.
MaxPcm == 2

PcmBytes == {0, 127, 128, 255}

OneSecond == [k \in 1 .. 2 * SAMPLE_RATE |-> IF k % 2 = 1 THEN 0 ELSE 64]

Stdouts ==
    UNION {[1 .. n -> PcmBytes] : n \in 0 .. 2 * MaxPcm} \cup {OneSecond}

\* Requests to the endpoints in flight together.
NumApiRequests == 1

ApiRequests == 1 .. NumApiRequests

\* The endpoints, and the requests made to them: the endpoint, the audio
\* file its path or clip names ("" for a clip id with no row), max_duration.
Endpoints == {"clip_id", "clip", "recording"}

ApiCalls ==
    {<<"clip_id", "", None>>, <<"clip_id", "tone", None>>,
     <<"clip_id", "missing", None>>, <<"clip_id", "corrupt", None>>,
     <<"clip", "tone", Some(SAMPLE_RATE)>>, <<"clip", "missing", None>>,
     <<"clip", "long", Some(SAMPLE_RATE)>>,
     <<"recording", "tone", None>>, <<"recording", "missing", None>>,
     <<"recording", "long", Some(SAMPLE_RATE)>>,
     <<"recording", "corrupt", None>>}

\* The files another process may remove while requests run.
Removable == {"tone"}

NoResponse ==
    [status |-> 0, media_type |-> "", body |-> <<>>, headers |-> {},
     detail |-> ""]

NewHttp ==
    [hpc |-> "new", endpoint |-> "", audio_path |-> "",
     max_duration |-> None, response |-> NoResponse]

Grids ==
    UNION {
        {[height |-> h, width |-> w, px |-> p] :
            p \in [0 .. h - 1 -> [0 .. w - 1 -> Palette]]} :
        h \in 1 .. MaxGridH, w \in 1 .. MaxGridW}

MaxDurations(s) ==
    {None} \cup {Some(x) : x \in {-SAMPLE_RATE, 0, SAMPLE_RATE \div 2,
                                  SAMPLE_RATE, 2 * SAMPLE_RATE, 2 * s.len}}

(***************************************************************************)
(* Actions                                                                 *)
(***************************************************************************)
Init ==
    /\ pc = "idle"
    /\ samples = [len |-> 0, onset |-> 0, amp |-> 0]
    /\ buffer_after = [len |-> 0, onset |-> 0, amp |-> 0]
    /\ duration = 0
    /\ max_duration = None
    /\ num_frames = 0
    /\ display_width = 0
    /\ display_height = 0
    /\ spectrogram_width = 0
    /\ frame_step = 0
    /\ magnitudes = <<>>
    /\ max_magnitude = NegInf
    /\ min_db = NegInf
    /\ actual_cols = 0
    /\ image = NoImage
    /\ error = "none"
    /\ value = 0
    /\ color = BG_COLOR
    /\ prev_value = -1
    /\ prev_color = BG_COLOR
    /\ grid = NoGrid
    /\ raw_data = <<>>
    /\ compressed = <<>>
    /\ png_bytes = <<>>
    /\ encode_error = "none"
    /\ calls = 0
    /\ first_run = NoRun
    /\ last_run = NoRun
    /\ req = [r \in Requests |-> NewRequest]
    /\ files = AudioFiles \ {"missing"}
    /\ stdout = <<>>
    /\ decoded = <<>>
    /\ decoded_duration = 0
    /\ decode_error = "none"
    /\ http = [r \in ApiRequests |-> NewHttp]

\* _compute_spectrogram(samples, max_duration, duration), lines 140-229.  A
\* write image[row, col] with col >= display_width raises IndexError, and the
\* call then returns no grid.
ComputeSpectrogram(s, m, d) ==
    /\ pc = "idle"
    /\ samples' = s
    /\ duration' = d
    /\ max_duration' = m
    /\ num_frames' = NumFrames(s.len)
    /\ display_width' = BaseWidth(num_frames')
    /\ spectrogram_width' = SpectrogramWidth(BaseWidth(num_frames'),
                                             DurationRatio(d, m))
    /\ display_height' = DisplayHeight
    /\ frame_step' = FrameStep(num_frames', spectrogram_width')
    /\ magnitudes' = Magnitudes(s, num_frames', frame_step')
    /\ buffer_after' = BufferAfter(s, num_frames', frame_step')
    /\ max_magnitude' = MaxMagnitude(magnitudes')
    /\ min_db' = MinDb(max_magnitude')
    /\ actual_cols' = ActualCols(magnitudes', spectrogram_width')
    /\ IF \E col \in 0 .. actual_cols' - 1 : col >= display_width'
       THEN /\ pc' = "raised"
            /\ error' = "IndexError"
            /\ image' = NoImage
       ELSE /\ pc' = "returned"
            /\ error' = "none"
            /\ image' = FilledImage(display_height', display_width',
                                    magnitudes', actual_cols')
    /\ UNCHANGED colorVars
    /\ UNCHANGED encodeVars

\* _get_color_for_value(value), lines 38-72.
GetColor(val) ==
    /\ pc = "idle"
    /\ value' = val
    /\ color' = GetColorForValue(val)
    /\ pc' = "colored"
    /\ UNCHANGED <<prev_value, prev_color>>
    /\ UNCHANGED computeVars
    /\ UNCHANGED encodeVars

\* _get_color_for_value called once more, with a larger value.
GetColorAgain(val) ==
    /\ pc = "colored"
    /\ val > value
    /\ prev_value' = value
    /\ prev_color' = color
    /\ value' = val
    /\ color' = GetColorForValue(val)
    /\ UNCHANGED pc
    /\ UNCHANGED computeVars
    /\ UNCHANGED encodeVars

\* _encode_png(image), lines 231-263.  A struct.pack out of range raises
\* struct.error, and the call then returns no bytes.
Encode(g) ==
    /\ grid' = g
    /\ raw_data' = RawData(g)
    /\ compressed' = Compress(raw_data')
    /\ IF EncodeRaises(g.width, g.height, Len(compressed'))
       THEN /\ pc' = "encode raised"
            /\ encode_error' = "struct.error"
            /\ png_bytes' = <<>>
       ELSE /\ pc' = "encoded"
            /\ encode_error' = "none"
            /\ png_bytes' = PngStream(g.width, g.height, compressed')
    /\ UNCHANGED computeVars
    /\ UNCHANGED colorVars

\* The conversion in _decode_audio of an output of the decoder that exited
\* with status 0, and the duration of line 286.  np.frombuffer raises
\* ValueError for a buffer that is no whole number of elements.
DecodeAudio(bytes) ==
    /\ pc = "idle"
    /\ stdout' = bytes
    /\ IF Len(bytes) % 2 # 0
       THEN /\ pc' = "decode raised"
            /\ decode_error' = "ValueError"
            /\ decoded' = <<>>
            /\ decoded_duration' = 0
       ELSE /\ pc' = "decoded"
            /\ decode_error' = "none"
            /\ decoded' = DecodeSamples(bytes)
            /\ decoded_duration' = DurationTicks(Len(decoded'), ReturnedRate)
    /\ UNCHANGED <<computeVars, colorVars, encodeVars>>
    /\ UNCHANGED <<repeatVars, serviceVars, apiVars>>

\* _encode_png called on a grid of its own.
EncodePng(g) ==
    /\ pc = "idle"
    /\ Encode(g)

Next ==
    \/ \E s \in Buffers : \E m \in MaxDurations(s) : \E d \in Durations(s) :
          ComputeSpectrogram(s, m, d) /\ UNCHANGED <<repeatVars, serviceVars, apiVars, decodeVars>>
    \/ \E val \in 0 .. NormScale : GetColor(val) /\ UNCHANGED <<repeatVars, serviceVars, apiVars, decodeVars>>
    \/ \E val \in 0 .. NormScale :
          /\ val <= value + MaxStep /\ prev_value = -1 /\ GetColorAgain(val)
          /\ UNCHANGED <<repeatVars, serviceVars, apiVars, decodeVars>>
    \/ \E g \in Grids : EncodePng(g) /\ UNCHANGED <<repeatVars, serviceVars, apiVars, decodeVars>>
    \/ \E bytes \in Stdouts : DecodeAudio(bytes)

Spec == Init /\ [][Next]_vars

(***************************************************************************)
(* Calls one after another on the one service object.  A call's locals     *)
(* are left as they are when it returns, so that a later call that read    *)
(* any of them would show.                                                 *)
(***************************************************************************)
\* A call returns to its caller.
Return ==
    /\ pc # "idle"
    /\ pc' = "idle"
    /\ UNCHANGED <<computeVars, colorVars, encodeVars, repeatVars>>
    /\ UNCHANGED <<serviceVars, apiVars, decodeVars>>

\* _compute_spectrogram(samples, max_duration, duration) with the duration
\* of the buffer, as line 289 calls it.
ComputeOnce(s, m) ==
    /\ calls < MaxCalls
    /\ ComputeSpectrogram(s, m, s.len)
    /\ calls' = calls + 1
    /\ UNCHANGED <<first_run, last_run>>
    /\ UNCHANGED <<serviceVars, apiVars, decodeVars>>

\* _encode_png(image) on the grid the call before it returned, as line 292
\* calls it.
EncodeImage ==
    /\ pc = "returned"
    /\ calls < MaxCalls
    /\ \E g \in {GridOf(image, min_db, max_magnitude)} : Encode(g)
    /\ calls' = calls + 1
    /\ last_run' = [n |-> calls', samples |-> samples, duration |-> duration,
                    max_duration |-> max_duration, grid |-> grid',
                    png |-> png_bytes']
    /\ first_run' = IF first_run = NoRun THEN last_run' ELSE first_run
    /\ UNCHANGED <<serviceVars, apiVars, decodeVars>>

\* _encode_png on some other grid.
EncodeOther(g) ==
    /\ calls < MaxCalls
    /\ EncodePng(g)
    /\ calls' = calls + 1
    /\ UNCHANGED <<first_run, last_run>>
    /\ UNCHANGED <<serviceVars, apiVars, decodeVars>>

NextRepeat ==
    \/ \E s \in RepeatBuffers : \E m \in RepeatMaxDurations : ComputeOnce(s, m)
    \/ EncodeImage
    \/ \E g \in {RedGrid} : EncodeOther(g)
    \/ Return

SpecRepeat == Init /\ [][NextRepeat]_vars

(***************************************************************************)
(* generate_spectrogram_png: coroutines on the one event loop.  A          *)
(* coroutine runs without interruption between its awaits, which are the   *)
(* creation of the decoder process and the wait for its output; there      *)
(* other coroutines run.                                                   *)
(***************************************************************************)
\* The max_duration a coroutine passes on as it would be if it were kept in
\* one place for all coroutines (here: the first one's).
MaxDurationShared(r) == req[1].max_duration

\* The max_duration argument of coroutine r, a local of it.
MaxDurationOf(r) == req[r].max_duration

\* DecodeFails as it would be if the exit status were not looked at.
DecodeFailsNever(out) == FALSE

\* process.returncode != 0 (line 100).
DecodeFails(out) == out.returncode # 0

\* The coroutine's request record with its ending.
Failed(q, err, msg, stages) ==
    [q EXCEPT !.rpc = "failed", !.error = err, !.message = msg,
              !.stages = stages]

\* generate_spectrogram_png(audio_path, max_duration) up to its first await
\* (lines 280-285 and 81-91): the existence check raises SpectrogramError,
\* or _decode_audio is entered and asks for the decoder process.
GenerateSpectrogramPng(r, f, m) ==
    /\ req[r].rpc = "new"
    /\ LET q == [req[r] EXCEPT !.audio_path = f, !.max_duration = m]
       IN  req' = [req EXCEPT ![r] =
                IF ~FileExists(f)
                THEN Failed(q, "SpectrogramError",
                            "Audio file not found: " \o f, <<"exists">>)
                ELSE [q EXCEPT !.rpc = "spawn",
                               !.stages = <<"exists", "decode">>]]
    /\ UNCHANGED <<pc, computeVars, colorVars, encodeVars, repeatVars>>
    /\ UNCHANGED <<apiVars, decodeVars>>

\* asyncio.create_subprocess_exec returns (lines 92-96), or raises
\* FileNotFoundError when there is no ffmpeg, which line 111 turns into
\* SpectrogramError.
SubprocessCreated(r, found) ==
    /\ req[r].rpc = "spawn"
    /\ LET q == [req[r] EXCEPT !.ffmpeg_found = found]
       IN  req' = [req EXCEPT ![r] =
                IF ~found
                THEN Failed(q, "SpectrogramError", "FFmpeg not found",
                            q.stages)
                ELSE [q EXCEPT !.rpc = "communicate"]]
    /\ UNCHANGED <<pc, computeVars, colorVars, encodeVars, repeatVars>>
    /\ UNCHANGED <<apiVars, decodeVars>>

\* process.communicate() returns and the coroutine runs to its end (lines
\* 98-109 and 286-294): a non-zero exit status raises SpectrogramError;
\* otherwise the samples are analysed and the grid is encoded.
ProcessExited(r) ==
    /\ req[r].rpc = "communicate"
    /\ LET q   == req[r]
           out == DecoderOutput(q.audio_path)
       IN  IF DecodeFails(out)
           THEN req' = [req EXCEPT ![r] =
                           Failed(q, "SpectrogramError",
                                  "FFmpeg failed: " \o out.stderr, q.stages)]
           ELSE \E res \in {ComputeResult(out.pcm, MaxDurationOf(r),
                                          out.pcm.len)} :
                IF res.raised
                THEN req' = [req EXCEPT ![r] =
                                Failed(q, "IndexError",
                                       "index out of bounds for axis 1",
                                       q.stages \o <<"analyse">>)]
                ELSE \E png \in {EncodePngBytes(GridOf(res.image, res.min_db,
                                                       res.max_magnitude))} :
                     req' = [req EXCEPT ![r] =
                        IF EncodeRaises(res.image.width, res.image.height,
                                        Len(png) - 57)
                        THEN Failed(q, "struct.error",
                                    "argument out of range",
                                    q.stages \o <<"analyse", "encode">>)
                        ELSE [q EXCEPT
                                !.rpc = "done",
                                !.stages = q.stages \o <<"analyse", "encode">>,
                                !.png_bytes = png,
                                !.duration = out.pcm.len]]
    /\ UNCHANGED <<pc, computeVars, colorVars, encodeVars, repeatVars>>
    /\ UNCHANGED <<apiVars, decodeVars>>

NextService ==
    \/ \E r \in Requests : \E call \in ServiceCalls :
          GenerateSpectrogramPng(r, call[1], call[2])
    \/ \E r \in Requests : \E found \in BOOLEAN : SubprocessCreated(r, found)
    \/ \E r \in Requests : ProcessExited(r)

SpecService == Init /\ [][NextService]_vars

(***************************************************************************)
(* The spectrogram endpoints (api/spectrogram.py).  Request r of the       *)
(* endpoints runs invocation r of generate_spectrogram_png.  The files     *)
(* are on a disk that other processes write: a file can go at any moment.  *)
(***************************************************************************)
\* str(duration) for the durations the modelled decoder outputs have, as
\* Python prints the quotient N / 44100.
DurationStrings ==
    {<<0, "0.0">>, <<1, "2.2675736961451248e-05">>,
     <<FFT_SIZE, "0.023219954648526078">>,
     <<FFT_SIZE + HOP_SIZE, "0.029024943310657598">>,
     <<SAMPLE_RATE, "1.0">>,
     <<FFT_SIZE + HOP_SIZE * MAX_WIDTH, "4.667210884353741">>}

StrOfDuration(ticks) ==
    IF \E e \in DurationStrings : e[1] = ticks
    THEN (CHOOSE e \in DurationStrings : e[1] = ticks)[2]
    ELSE "unmodelled"

\* HTTPException(status_code, detail).
HttpError(status, detail) ==
    [status |-> status, media_type |-> "application/json", body |-> <<>>,
     headers |-> {}, detail |-> detail]

\* The detail of the 404 each endpoint raises for an absent file (lines 49,
\* 86, 122).
NotFoundDetail(endpoint, f) ==
    IF endpoint = "clip_id"
    THEN "Clip audio file not found: " \o f
    ELSE IF endpoint = "clip"
    THEN "Clip audio not found"
    ELSE "Recording not found"

\* SuccessResponse as it would be without the header that exposes the
\* duration header.
SuccessResponseNotExposed(png, dur) ==
    [status |-> 200, media_type |-> "image/png", body |-> png,
     headers |-> {<<"X-Audio-Duration", StrOfDuration(dur)>>,
                  <<"Cache-Control", "public, max-age=3600">>},
     detail |-> ""]

\* Response(content=png_bytes, media_type='image/png', headers={...}), lines
\* 57-65, 94-102 and 130-138.
SuccessResponse(png, dur) ==
    [status |-> 200, media_type |-> "image/png", body |-> png,
     headers |-> {<<"X-Audio-Duration", StrOfDuration(dur)>>,
                  <<"Cache-Control", "public, max-age=3600">>,
                  <<"Access-Control-Expose-Headers", "X-Audio-Duration">>},
     detail |-> ""]

\* What the framework answers when the handler raises something that is no
\* HTTPException: status 500 with a fixed text.
UnhandledResponse ==
    [status |-> 500, media_type |-> "text/plain", body |-> <<>>,
     headers |-> {}, detail |-> "Internal Server Error"]

\* expose_headers of the CORS middleware (main.py).
CorsExposeHeaders == {"X-Audio-Duration"}

\* A handler runs to its existence check (lines 35-49, 83-86, 119-122): no
\* clip row or no file ends the request with 404; otherwise the handler goes
\* on to call the service.
EndpointCheck(r, call) ==
    /\ http[r].hpc = "new"
    /\ LET h == [http[r] EXCEPT !.endpoint = call[1], !.audio_path = call[2],
                                !.max_duration = call[3]]
       IN  http' = [http EXCEPT ![r] =
                IF call[1] = "clip_id" /\ call[2] = ""
                THEN [h EXCEPT !.hpc = "responded",
                               !.response = HttpError(404, "Clip not found")]
                ELSE IF ~FileExists(call[2])
                THEN [h EXCEPT !.hpc = "responded",
                               !.response =
                                  HttpError(404,
                                            NotFoundDetail(call[1], call[2]))]
                ELSE [h EXCEPT !.hpc = "calling"]]
    /\ UNCHANGED <<pc, computeVars, colorVars, encodeVars, repeatVars>>
    /\ UNCHANGED <<serviceVars, files, decodeVars>>

\* The handler calls generate_spectrogram_png with its path and max_duration
\* (lines 52-55, 89-92, 125-128).
CallService(r) ==
    /\ http[r].hpc = "calling"
    /\ GenerateSpectrogramPng(r, http[r].audio_path, http[r].max_duration)

\* The call has ended and the handler answers: the image, or HTTPException
\* 500 with str(e) for a SpectrogramError (lines 67-69, 104-105, 140-141);
\* any other exception leaves the handler.
Respond(r) ==
    /\ http[r].hpc = "calling"
    /\ req[r].rpc \in {"done", "failed"}
    /\ http' = [http EXCEPT ![r] =
           [@ EXCEPT !.hpc = "responded",
                     !.response =
                        IF req[r].rpc = "done"
                        THEN SuccessResponse(req[r].png_bytes, req[r].duration)
                        ELSE IF req[r].error = "SpectrogramError"
                        THEN HttpError(500, req[r].message)
                        ELSE UnhandledResponse]]
    /\ UNCHANGED <<pc, computeVars, colorVars, encodeVars, repeatVars>>
    /\ UNCHANGED <<serviceVars, files, decodeVars>>

\* Another process removes a file.
RemoveFile(f) ==
    /\ f \in files
    /\ files' = files \ {f}
    /\ UNCHANGED <<pc, computeVars, colorVars, encodeVars, repeatVars>>
    /\ UNCHANGED <<serviceVars, http, decodeVars>>

NextApi ==
    \/ \E r \in ApiRequests : \E call \in ApiCalls : EndpointCheck(r, call)
    \/ \E r \in ApiRequests : CallService(r)
    \/ \E r \in ApiRequests : \E found \in BOOLEAN : SubprocessCreated(r, found)
    \/ \E r \in ApiRequests : ProcessExited(r)
    \/ \E r \in ApiRequests : Respond(r)
    \/ \E f \in Removable : RemoveFile(f)

SpecApi == Init /\ [][NextApi]_vars

(***************************************************************************)
(* Properties                                                              *)
(***************************************************************************)
\* A call of _compute_spectrogram has ended, by returning or by raising.
Ended == pc \in {"returned", "raised"}

\* C1: _compute_spectrogram is total: for every sample count, duration and
\* max_duration the call ends without raising; every written column index is
\* below display_width and every read magnitudes[col] is inside the list.
C1_ComputeIsTotal ==
    Ended =>
        /\ pc = "returned"
        /\ error = "none"
        /\ \A col \in 0 .. actual_cols - 1 :
              col < display_width /\ col + 1 <= Len(magnitudes)

\* C2: the returned grid has 1 <= height <= 200 and 1 <= width <= 800, with
\* width = min(num_frames, 800) and height = min(512, 200).
C2_GridDimensions ==
    pc = "returned" =>
        /\ image.height >= 1 /\ image.height <= 200
        /\ image.width >= 1 /\ image.width <= 800
        /\ image.width = (IF num_frames <= 800 THEN num_frames ELSE 800)
        /\ image.height = 200
        /\ DOMAIN image.cols = 0 .. image.width - 1

\* C2 witness: a grid returned for a buffer of more than 800 frames.
C2_Witness == pc = "returned" /\ num_frames > 800 /\ image.width = 800

\* C3: for all inputs, spectrogram_width <= display_width.
C3_WidthWithinDisplay == Ended => spectrogram_width <= display_width

\* C4: in the returned grid every pixel of every column c with
\* actual_cols <= c < display_width, actual_cols = min(number of rows,
\* spectrogram_width), is the background colour (10, 0, 30).
C4_BackgroundBeyondActualCols ==
    pc = "returned" =>
        \A c \in 0 .. image.width - 1 :
            (c >= Len(magnitudes) \/ c >= spectrogram_width) =>
                \A r \in 0 .. image.height - 1 :
                    Pixel(image, r, c, min_db, max_magnitude) = <<10, 0, 30>>

\* C4 witness: a returned grid with columns left over, whose first column was
\* rendered in a colour other than the background.
C4_Witness ==
    /\ pc = "returned"
    /\ actual_cols < image.width
    /\ Pixel(image, 149, 0, min_db, max_magnitude) # <<10, 0, 30>>

\* The call analysed one second of silence with max_duration absent.
SilenceScenario ==
    /\ pc = "returned"
    /\ samples.len = 44100
    /\ samples.amp = 0
    /\ ~max_duration.given

\* C5 as stated: for 44100 zero samples and no max_duration every magnitude is
\* -200 dB, max_magnitude = -200, min_db = -280, every normalized value is 0
\* and every rendered pixel is (10, 0, 30).
C5_SilenceRendersBackground ==
    SilenceScenario =>
        /\ max_magnitude = -200
        /\ min_db = -280
        /\ \A j \in 1 .. Len(magnitudes) : \A bin \in 0 .. 399 :
              RowDb(magnitudes[j], bin) = -200
        /\ \A c \in 0 .. actual_cols - 1 : \A r \in 0 .. image.height - 1 :
              /\ Normalized(RowDb(magnitudes[c + 1], BinIdx(r, 200, 400)),
                            min_db, max_magnitude) = 0
              /\ Pixel(image, r, c, min_db, max_magnitude) = <<10, 0, 30>>

\* C5 amended: for 44100 zero samples and no max_duration there are 169 frames,
\* every magnitude is -200 dB, max_magnitude = -200, min_db = -280, every
\* normalized value is 80 / (80 + 1e-10), the largest value below 1, and every
\* rendered pixel is (255, 254, 199), which is not the background colour.
C5_SilenceRendersBright ==
    SilenceScenario =>
        /\ num_frames = 169
        /\ max_magnitude = -200
        /\ min_db = -280
        /\ \A j \in 1 .. Len(magnitudes) : \A bin \in 0 .. 399 :
              RowDb(magnitudes[j], bin) = -200
        /\ \A c \in 0 .. actual_cols - 1 : \A r \in 0 .. image.height - 1 :
              /\ Normalized(RowDb(magnitudes[c + 1], BinIdx(r, 200, 400)),
                            min_db, max_magnitude) = NormScale - 1
              /\ Pixel(image, r, c, min_db, max_magnitude) = <<255, 254, 199>>
        /\ <<255, 254, 199>> # BG_COLOR

\* C5 witness: the silence was analysed and all its 169 columns rendered.
C5_Witness == SilenceScenario /\ actual_cols = 169 /\ image.width = 169

\* C6: num_frames = max(1, floor((N - 1024) / 256) + 1) >= 1: for N >= 1024 it
\* is the number of whole hops that fit, below that it is 1; 44100 samples give
\* 169, 500 give 1 and 0 give 1.
C6_NumFrames ==
    Ended =>
        /\ num_frames >= 1
        /\ samples.len >= 1024 =>
              /\ 1024 + 256 * (num_frames - 1) <= samples.len
              /\ samples.len < 1024 + 256 * num_frames
        /\ samples.len < 1024 => num_frames = 1
        /\ samples.len = 44100 => num_frames = 169
        /\ samples.len = 500 => num_frames = 1
        /\ samples.len = 0 => num_frames = 1

\* C6 witness: one second of samples was counted as 169 frames.
C6_Witness == Ended /\ samples.len = 44100 /\ num_frames = 169

\* C7: a buffer of N < FFT_SIZE samples is analysed as exactly one frame, frame
\* 0, whose first N entries are the windowed samples and whose other entries
\* are zero; nothing is raised and the grid is 200 high and 1 wide.
C7_ShortBufferOneFrame ==
    (Ended /\ samples.len < 1024) =>
        /\ pc = "returned"
        /\ error = "none"
        /\ Len(magnitudes) = 1
        /\ magnitudes[1].frame_idx = 0
        /\ \A i \in 0 .. 1023 :
              FrameEntry(samples, magnitudes[1], i) =
                  (IF i < samples.len THEN <<SampleAt(samples, i), i>>
                                      ELSE <<0, i>>)
        /\ image.height = 200
        /\ image.width = 1

\* C7 witness: a tone of 500 samples was analysed as one zero-padded frame.
C7_Witness ==
    /\ pc = "returned"
    /\ samples.len = 500
    /\ samples.amp # 0
    /\ samples.onset = 0
    /\ Len(magnitudes) = 1
    /\ FrameEntry(samples, magnitudes[1], 499) = <<samples.amp, 499>>
    /\ FrameEntry(samples, magnitudes[1], 500) = <<0, 500>>

\* C8: with max_duration positive, spectrogram_width = max(1, floor(
\* display_width * duration / max_duration)); for 0 < duration <= max_duration
\* exactly the spectrogram_width leading columns are rendered and the others
\* are background; max_duration 2.0 s and duration 1.0 s of 44100 samples give
\* spectrogram_width 84 with columns 84..168 background.
C8_ScaledWidth ==
    (Ended /\ max_duration.given /\ max_duration.val > 0) =>
        /\ IF display_width * duration < max_duration.val
           THEN spectrogram_width = 1
           ELSE /\ spectrogram_width * max_duration.val
                      <= display_width * duration
                /\ display_width * duration
                      < (spectrogram_width + 1) * max_duration.val
        /\ (0 < duration /\ duration <= max_duration.val) =>
              /\ pc = "returned"
              /\ actual_cols = spectrogram_width
              /\ \A c \in 0 .. image.width - 1 :
                    image.cols[c].rendered <=> c < spectrogram_width
        /\ (samples.len = 44100 /\ duration = 44100
                /\ max_duration.val = 88200) =>
              /\ spectrogram_width = 84
              /\ image.width = 169
              /\ \A c \in 84 .. 168 : \A r \in 0 .. 199 :
                    Pixel(image, r, c, min_db, max_magnitude) = <<10, 0, 30>>

\* C8 witness: one second of a tone rendered against max_duration 2.0 s.
C8_Witness ==
    /\ pc = "returned"
    /\ samples.len = 44100
    /\ samples.amp # 0
    /\ duration = 44100
    /\ max_duration = Some(88200)
    /\ spectrogram_width = 84
    /\ image.cols[83].rendered
    /\ ~image.cols[84].rendered

\* C9: with max_duration absent, zero or negative, whatever the duration,
\* spectrogram_width = display_width = min(num_frames, 800) and
\* actual_cols = display_width: every column of the grid is rendered.
C9_FullWidthWithoutMaxDuration ==
    (Ended /\ (~max_duration.given \/ max_duration.val <= 0)) =>
        /\ pc = "returned"
        /\ spectrogram_width = display_width
        /\ display_width = (IF num_frames <= 800 THEN num_frames ELSE 800)
        /\ actual_cols = display_width
        /\ image.width = display_width
        /\ \A c \in 0 .. image.width - 1 : image.cols[c].rendered

\* C9 witness: a negative max_duration and a buffer of more than 800 frames.
C9_Witness ==
    /\ pc = "returned"
    /\ max_duration.given
    /\ max_duration.val < 0
    /\ duration > 0
    /\ num_frames > 800
    /\ actual_cols = 800

\* int(formula) = c for the channel formula a + b * t, t = tnum / Quarter:
\* c <= a + b * t < c + 1.
TruncatesTo(c, a, b, tnum) ==
    /\ c * Quarter <= a * Quarter + b * tnum
    /\ a * Quarter + b * tnum < (c + 1) * Quarter

\* C10: for every normalized value in [0, 1] the segment is selected by v, each
\* channel is the segment's formula truncated to an integer and lies in
\* [0, 255]; value 0 gives (10, 0, 30), the background colour, and value 1
\* gives (255, 255, 200).
C10_ColorTable ==
    pc = "colored" =>
        LET v == Pow07(value)
        IN  /\ \A k \in 1 .. 3 : color[k] >= 0 /\ color[k] <= 255
            /\ v < 2500000 =>
                  /\ TruncatesTo(color[1], 10, 50, v)
                  /\ TruncatesTo(color[2], 0, 10, v)
                  /\ TruncatesTo(color[3], 30, 70, v)
            /\ (v >= 2500000 /\ v < 5000000) =>
                  /\ TruncatesTo(color[1], 60, 140, v - 2500000)
                  /\ TruncatesTo(color[2], 10, 30, v - 2500000)
                  /\ TruncatesTo(color[3], 100, 50, v - 2500000)
            /\ (v >= 5000000 /\ v < 7500000) =>
                  /\ TruncatesTo(color[1], 200, 55, v - 5000000)
                  /\ TruncatesTo(color[2], 40, 100, v - 5000000)
                  /\ TruncatesTo(color[3], 150, -100, v - 5000000)
            /\ v >= 7500000 =>
                  /\ color[1] = 255
                  /\ TruncatesTo(color[2], 140, 115, v - 7500000)
                  /\ TruncatesTo(color[3], 50, 150, v - 7500000)
            /\ value = 0 => color = <<10, 0, 30>> /\ color = BG_COLOR
            /\ value = NormScale => color = <<255, 255, 200>>

\* C10 witness: the colour of value 1 was computed.
C10_Witness ==
    pc = "colored" /\ value = NormScale /\ color = <<255, 255, 200>>

\* The segment of the colour table that v falls in: 0, 1, 2 or 3.
SegmentOf(v) ==
    IF v < 2500000 THEN 0
    ELSE IF v < 5000000 THEN 1
    ELSE IF v < 7500000 THEN 2
    ELSE 3

\* Two calls of _get_color_for_value were made, the second with the larger
\* value, and both values fall in the same segment.
SameSegmentPair ==
    /\ pc = "colored"
    /\ prev_value >= 0
    /\ prev_value < value
    /\ SegmentOf(Pow07(prev_value)) = SegmentOf(Pow07(value))

\* C11: within each of the four segments, raising t never lowers the Red
\* channel of the colour.
C11_RedMonotone == SameSegmentPair => prev_color[1] <= color[1]

\* C11 witness: two values of the third segment, the larger with more red.
C11_Witness ==
    /\ SameSegmentPair
    /\ SegmentOf(Pow07(value)) = 2
    /\ prev_color[1] < color[1]

(***************************************************************************)
(* Reading a PNG byte stream back, as a decoder does.                      *)
(***************************************************************************)
\* The big-endian number in the four bytes at pos; -1 when it is 2^31 or more.
U32At(bytes, pos) ==
    IF bytes[pos] >= 128
    THEN -1
    ELSE ((bytes[pos] * 256 + bytes[pos + 1]) * 256 + bytes[pos + 2]) * 256
         + bytes[pos + 3]

\* What stands for a chunk that does not fit in the bytes.
BadChunk == [ok |-> FALSE, at |-> 0, len |-> 0, type |-> <<>>, data |-> <<>>,
             crc |-> <<>>, size |-> 0]

\* The chunk that starts at pos, its extent taken from its length field.
ChunkAt(bytes, pos) ==
    IF pos + 11 > Len(bytes) \/ U32At(bytes, pos) < 0
       \/ pos + 11 + U32At(bytes, pos) > Len(bytes)
    THEN BadChunk
    ELSE LET n == U32At(bytes, pos)
         IN  [ok   |-> TRUE,
              at   |-> pos,
              len  |-> n,
              type |-> SubSeq(bytes, pos + 4, pos + 7),
              data |-> SubSeq(bytes, pos + 8, pos + 7 + n),
              crc  |-> SubSeq(bytes, pos + 8 + n, pos + 11 + n),
              size |-> 12 + n]

RECURSIVE ChunksFrom(_, _)
\* The chunks from pos to the end of the bytes; a last BadChunk when bytes
\* remain that are no chunk.
ChunksFrom(bytes, pos) ==
    IF pos > Len(bytes)
    THEN <<>>
    ELSE LET ch == ChunkAt(bytes, pos)
         IN  IF ch.ok
             THEN <<ch>> \o ChunksFrom(bytes, pos + ch.size)
             ELSE <<ch>>

\* The chunks after the signature of the bytes _encode_png returned.
Chunks == ChunksFrom(png_bytes, Len(Signature) + 1)

\* C12: the output of _encode_png is the 8-byte signature, then exactly one
\* IHDR chunk, one IDAT chunk and one zero-length IEND chunk in that order,
\* with no other chunk and no byte after them, and it is 57 bytes longer than
\* the compressed scanline data.
C12_StreamLayout ==
    pc = "encoded" =>
        /\ SubSeq(png_bytes, 1, 8) = Signature
        /\ Len(Chunks) = 3
        /\ \A k \in 1 .. Len(Chunks) : Chunks[k].ok
        /\ <<Chunks[1].type, Chunks[2].type, Chunks[3].type>>
              = <<TagIHDR, TagIDAT, TagIEND>>
        /\ Chunks[3].len = 0
        /\ Chunks[3].at + Chunks[3].size - 1 = Len(png_bytes)
        /\ Len(png_bytes) = 57 + Len(compressed)

\* A grid of more than one pixel has been encoded.
C12_Witness ==
    /\ pc = "encoded"
    /\ grid.height * grid.width > 1
    /\ Len(compressed) > 0
    /\ Len(png_bytes) = 57 + Len(compressed)

\* The CRC-32 of the PNG specification computed bit by bit, without a table:
\* the register after a byte is the register with the byte exclusive-or'ed
\* into its low end, shifted eight times.
RECURSIVE ShiftTimes(_, _)
ShiftTimes(c, n) ==
    IF n = 0
    THEN c
    ELSE LET d == CrcShift(c)
         IN  IF d[1] >= 0 THEN ShiftTimes(d, n - 1) ELSE d

BitwiseCrcByte(c, byte) == ShiftTimes(<<c[1], Xor16(c[2], byte)>>, 8)

RECURSIVE BitwiseCrcRange(_, _, _, _)
\* The register c after bytes[lo .. hi].
BitwiseCrcRange(bytes, lo, hi, c) ==
    IF lo > hi
    THEN c
    ELSE IF lo = hi
    THEN BitwiseCrcByte(c, bytes[lo])
    ELSE LET first == BitwiseCrcRange(bytes, lo, (lo + hi) \div 2, c)
         IN  IF first[1] >= 0
             THEN BitwiseCrcRange(bytes, (lo + hi) \div 2 + 1, hi, first)
             ELSE first

\* The four CRC bytes of a byte string, most significant first.
BitwiseCrc(bytes) ==
    LET c == BitwiseCrcRange(bytes, 1, Len(bytes), <<65535, 65535>>)
    IN  <<(65535 - c[1]) \div 256, (65535 - c[1]) % 256,
          (65535 - c[2]) \div 256, (65535 - c[2]) % 256>>

\* The data _encode_png hands to png_chunk for its three chunks.
ChunkData ==
    <<IhdrData(grid.width, grid.height), compressed, <<>>>>

ChunkTags == <<TagIHDR, TagIDAT, TagIEND>>

\* C13: every chunk _encode_png emits is a 4-byte big-endian length equal to
\* the number of bytes of the chunk's data, the 4-byte type tag, the data, and
\* a 4-byte big-endian CRC-32 over the type tag followed by the data, the
\* length field not included; the chunk takes length + 12 bytes.  The end
\* chunk's CRC is the known AE 42 60 82.
C13_ChunkLayout ==
    pc = "encoded" =>
        /\ Len(Chunks) = 3
        /\ \A k \in 1 .. 3 :
              /\ Chunks[k].ok
              /\ Chunks[k].len = Len(ChunkData[k])
              /\ Chunks[k].type = ChunkTags[k]
              /\ Chunks[k].data = ChunkData[k]
              /\ Chunks[k].crc = BitwiseCrc(ChunkTags[k] \o ChunkData[k])
              /\ Chunks[k].size = Len(ChunkData[k]) + 12
              /\ Chunks[k].at =
                    IF k = 1 THEN 9 ELSE Chunks[k - 1].at + Chunks[k - 1].size
        /\ Chunks[3].crc = <<174, 66, 96, 130>>

\* A grid has been encoded whose data chunk carries more bytes than its
\* header chunk, and whose CRCs differ between the chunks.
C13_Witness ==
    /\ pc = "encoded"
    /\ Len(Chunks) = 3
    /\ Chunks[2].len > Chunks[1].len
    /\ Chunks[2].len = Len(compressed)
    /\ Chunks[1].crc # Chunks[2].crc

\* The IHDR data read back from the bytes _encode_png returned.
HeaderData == Chunks[1].data

\* C14: the IHDR data is exactly 13 bytes: the grid's column count as 4-byte
\* big-endian width, then its row count as 4-byte big-endian height, then
\* the bytes 8, 2, 0, 0, 0; width and height are not exchanged.
C14_HeaderFields ==
    pc = "encoded" =>
        /\ Len(HeaderData) = 13
        /\ U32At(HeaderData, 1) = grid.width
        /\ U32At(HeaderData, 5) = grid.height
        /\ SubSeq(HeaderData, 9, 13) = <<8, 2, 0, 0, 0>>

\* A grid that is not square has been encoded, its column count first.
C14_Witness ==
    /\ pc = "encoded"
    /\ grid.width # grid.height
    /\ U32At(HeaderData, 1) = grid.width
    /\ U32At(HeaderData, 1) # U32At(HeaderData, 5)

\* The length of one scanline of the grid: the filter byte and three bytes
\* per pixel.
Stride == 1 + 3 * grid.width

\* C15: the raw scanline buffer has height * (1 + 3 * width) bytes; for every
\* row r the byte at offset r * (1 + 3 * width) is the filter byte 0, and
\* channel k of pixel (r, c) is at offset r * (1 + 3 * width) + 1 + 3 * c + k.
\* Offsets count from 0, the sequence raw_data from 1.
C15_ScanlineOffsets ==
    pc = "encoded" =>
        /\ Len(raw_data) = grid.height * Stride
        /\ \A r \in 0 .. grid.height - 1 :
              /\ raw_data[r * Stride + 1] = 0
              /\ \A c \in 0 .. grid.width - 1 : \A k \in 0 .. 2 :
                    raw_data[r * Stride + 1 + 3 * c + k + 1]
                       = grid.px[r][c][k + 1]

\* A grid of two rows and two columns has been encoded whose rows differ and
\* whose columns differ.
C15_Witness ==
    /\ pc = "encoded"
    /\ grid.height >= 2
    /\ grid.width >= 2
    /\ grid.px[0][0] # grid.px[0][1]
    /\ grid.px[0][0] # grid.px[1][0]
    /\ Len(raw_data) = grid.height * Stride

\* What stands for a stream that cannot be read.
Unreadable == [ok |-> FALSE, out |-> <<>>, next |-> 0]

RECURSIVE InflateBlocks(_, _)
\* The deflate blocks from pos on, inflated: a block's first byte holds the
\* final-block flag and the block type, and a stored block (type 0) holds
\* LEN, its complement NLEN and LEN bytes.  Compressed block types do not
\* occur in the modelled streams and are not read.
InflateBlocks(data, pos) ==
    IF pos + 4 > Len(data)
    THEN Unreadable
    ELSE LET final == data[pos] % 2
             btype == (data[pos] \div 2) % 4
             n     == data[pos + 1] + 256 * data[pos + 2]
             nn    == data[pos + 3] + 256 * data[pos + 4]
             rest  == InflateBlocks(data, pos + 5 + n)
         IN  IF btype # 0 \/ n + nn # 65535 \/ pos + 4 + n > Len(data)
             THEN Unreadable
             ELSE IF final = 1
             THEN [ok   |-> TRUE,
                   out  |-> SubSeq(data, pos + 5, pos + 4 + n),
                   next |-> pos + 5 + n]
             ELSE [ok   |-> rest.ok,
                   out  |-> SubSeq(data, pos + 5, pos + 4 + n) \o rest.out,
                   next |-> rest.next]

\* zlib's inflate of a stream: the header names deflate with no preset
\* dictionary and is a multiple of 31, the blocks follow, and the last four
\* bytes are the Adler-32 of what they inflate to.
Inflate(data) ==
    IF Len(data) < 6 \/ data[1] % 16 # 8 \/ (data[1] * 256 + data[2]) % 31 # 0
       \/ (data[2] \div 32) % 2 # 0
    THEN Unreadable
    ELSE LET blocks == InflateBlocks(data, 3)
         IN  IF /\ blocks.ok
                /\ blocks.next + 3 = Len(data)
                /\ SubSeq(data, blocks.next, blocks.next + 3)
                      = PackWord(Adler32(blocks.out))
             THEN blocks
             ELSE Unreadable

\* The grid of width x height pixels in scanlines whose filter byte is 0.
Unfilter(raw, width, height) ==
    IF /\ Len(raw) = height * (1 + 3 * width)
       /\ \A r \in 0 .. height - 1 : raw[r * (1 + 3 * width) + 1] = 0
    THEN [ok |-> TRUE,
          grid |->
            [height |-> height, width |-> width,
             px |-> [r \in 0 .. height - 1 |-> [c \in 0 .. width - 1 |->
                       LET at == r * (1 + 3 * width) + 1 + 3 * c
                       IN  <<raw[at + 1], raw[at + 2], raw[at + 3]>>]]]]
    ELSE [ok |-> FALSE, grid |-> NoGrid]

\* What a decoder makes of a byte stream: the signature, chunks with valid
\* CRCs, an 8-bit truecolour header first, the data chunk inflated and its
\* filter bytes stripped, the end chunk last.
DecodePng(bytes) ==
    LET chunks == ChunksFrom(bytes, 9)
        header == chunks[1].data
        raw    == Inflate(chunks[2].data)
    IN  IF /\ Len(bytes) >= 8
           /\ SubSeq(bytes, 1, 8) = <<137, 80, 78, 71, 13, 10, 26, 10>>
           /\ Len(chunks) = 3
           /\ \A k \in 1 .. 3 :
                 /\ chunks[k].ok
                 /\ chunks[k].crc = BitwiseCrc(chunks[k].type \o chunks[k].data)
           /\ chunks[1].type = <<73, 72, 68, 82>>
           /\ chunks[2].type = <<73, 68, 65, 84>>
           /\ chunks[3].type = <<73, 69, 78, 68>>
           /\ Len(header) = 13
           /\ SubSeq(header, 9, 13) = <<8, 2, 0, 0, 0>>
           /\ U32At(header, 1) >= 1
           /\ U32At(header, 5) >= 1
           /\ raw.ok
        THEN Unfilter(raw.out, U32At(header, 1), U32At(header, 5))
        ELSE [ok |-> FALSE, grid |-> NoGrid]

\* C16: decoding the bytes _encode_png returned for a grid (parse the chunks,
\* inflate the data chunk, strip each row's filter byte) gives a grid of the
\* same dimensions, equal to the input channel for channel; the 1 x 1 grid
\* (255, 0, 0) decodes to (255, 0, 0).
C16_RoundTrip ==
    pc = "encoded" =>
        /\ DecodePng(png_bytes).ok
        /\ DecodePng(png_bytes).grid = grid
        /\ grid = RedGrid =>
              DecodePng(png_bytes).grid.px[0][0] = <<255, 0, 0>>

\* The 1 x 1 grid (255, 0, 0) has been encoded and decodes to its pixel.
C16_Witness ==
    /\ pc = "encoded"
    /\ grid = RedGrid
    /\ DecodePng(png_bytes).ok
    /\ DecodePng(png_bytes).grid.px[0][0] = <<255, 0, 0>>

\* The largest grid _compute_spectrogram can return, by its sizes.
LargestRawLen == MAX_HEIGHT * (1 + 3 * MAX_WIDTH)

\* C17: _encode_png never fails for a grid of height >= 1 and width >= 1: it
\* raises nothing and returns a byte stream, for every modelled grid from
\* 1 x 1 on; and for the 200 x 800 grid the header fields and every chunk
\* length are within what struct.pack accepts.
C17_EncodeIsTotal ==
    /\ pc # "encode raised"
    /\ encode_error = "none"
    /\ pc = "encoded" =>
          /\ Len(png_bytes) > 0
          /\ Len(compressed) = CompressedLen(Len(raw_data))
    /\ ~EncodeRaises(MAX_WIDTH, MAX_HEIGHT, CompressedLen(LargestRawLen))

\* The 1 x 1 grid has been encoded and bytes were returned.
C17_Witness ==
    /\ pc = "encoded"
    /\ grid.height = 1
    /\ grid.width = 1
    /\ encode_error = "none"
    /\ Len(png_bytes) > 0

IsPrefix(s, t) == Len(s) <= Len(t) /\ s = SubSeq(t, 1, Len(s))

\* What generate_spectrogram_png(f, m) returns or raises when it runs with
\* no other invocation: the exception, the bytes, the duration.
Alone(f, m, found) ==
    LET out == DecoderOutput(f)
        res == ComputeResult(out.pcm, m, out.pcm.len)
    IN  IF ~FileExists(f) \/ ~found \/ out.returncode # 0
        THEN [error |-> "SpectrogramError", png_bytes |-> <<>>, duration |-> 0]
        ELSE IF res.raised
        THEN [error |-> "IndexError", png_bytes |-> <<>>, duration |-> 0]
        ELSE [error |-> "none",
              png_bytes |-> EncodePngBytes(GridOf(res.image, res.min_db,
                                                  res.max_magnitude)),
              duration |-> out.pcm.len]

RequestEnded(r) == req[r].rpc \in {"done", "failed"}

StageOrder == <<"exists", "decode", "analyse", "encode">>

\* The existence check of invocation r has failed, or its decoder has: there
\* is no ffmpeg, or it has exited with a non-zero status.
DecodeFailure(r) ==
    /\ req[r].rpc # "new"
    /\ \/ ~FileExists(req[r].audio_path)
       \/ ~req[r].ffmpeg_found
       \/ /\ RequestEnded(r)
          /\ DecoderOutput(req[r].audio_path).returncode # 0

\* C20: the stages of an invocation run in the order existence check, decode,
\* analyse, encode; and when the existence check or the decoder fails,
\* SpectrogramError is raised and neither _compute_spectrogram nor
\* _encode_png is invoked.
C20_StageOrder ==
    \A r \in Requests :
        /\ IsPrefix(req[r].stages, StageOrder)
        /\ DecodeFailure(r) =>
              /\ req[r].rpc = "failed"
              /\ req[r].error = "SpectrogramError"
              /\ \A k \in 1 .. Len(req[r].stages) :
                    req[r].stages[k] \notin {"analyse", "encode"}

\* One invocation has failed on a file the decoder rejects, before analysis,
\* and another has run through all four stages.
C20_Witness ==
    \E r, o \in Requests :
        /\ req[r].rpc = "failed"
        /\ req[r].audio_path = "corrupt"
        /\ req[r].ffmpeg_found
        /\ req[r].stages = <<"exists", "decode">>
        /\ req[r].error = "SpectrogramError"
        /\ req[o].rpc = "done"
        /\ req[o].stages = StageOrder

\* Request r of the endpoints has been answered.
Responded(r) == http[r].hpc = "responded"

\* The answer to request r is the complete image: status 200, image/png, the
\* bytes of an invocation whose four stages all ran.
ImageResponse(r) ==
    /\ http[r].response.status = 200
    /\ http[r].response.media_type = "image/png"
    /\ req[r].rpc = "done"
    /\ req[r].stages = StageOrder
    /\ http[r].response.body = req[r].png_bytes
    /\ Len(req[r].png_bytes) > 57

\* The answer to request r is an error that carries no image and whose
\* detail is the description of what failed: the endpoint's own 404 text, or
\* the message of the exception the service raised.
ErrorResponse(r) ==
    /\ http[r].response.status \in {404, 500}
    /\ http[r].response.media_type # "image/png"
    /\ http[r].response.body = <<>>
    /\ http[r].response.detail # ""
    /\ req[r].rpc = "failed" => http[r].response.detail = req[r].message

\* C21: every request to a spectrogram endpoint ends either with the
\* complete image/png response, after decode, analysis and encoding all
\* succeeded, or with an error response whose detail carries the description
\* of the failure, whichever stage failed.
C21_ImageOrDescribedError ==
    \A r \in ApiRequests :
        Responded(r) => (ImageResponse(r) \/ ErrorResponse(r))

\* The service of request r found the file absent at its own check.
AbsentAtService(r) ==
    req[r].rpc = "failed" /\ req[r].stages = <<"exists">>

\* The decoder of request r failed: no ffmpeg, or a non-zero exit status.
DecoderFailed(r) ==
    /\ req[r].rpc = "failed"
    /\ req[r].stages = <<"exists", "decode">>
    /\ req[r].error = "SpectrogramError"

\* C22: absence of the audio file is answered with 404, a failure or absence
\* of the decoder with 500 and the failure's description, and the two are
\* not confused, also when the file is removed between the endpoint's
\* existence check and the service's.
C22_AbsentIs404 ==
    \A r \in ApiRequests :
        Responded(r) =>
            /\ AbsentAtService(r) => http[r].response.status = 404
            /\ DecoderFailed(r) =>
                  /\ http[r].response.status = 500
                  /\ http[r].response.detail = req[r].message
            /\ http[r].response.status = 404 => ~DecoderFailed(r)

\* C23: every successful response has media type image/png, the bytes
\* generate_spectrogram_png returned as its body, a header X-Audio-Duration
\* with the string form of the duration the same call returned, and a header
\* Access-Control-Expose-Headers that names X-Audio-Duration, as the CORS
\* middleware's expose_headers does.
C23_SuccessResponse ==
    \A r \in ApiRequests :
        (Responded(r) /\ http[r].response.status = 200) =>
            /\ req[r].rpc = "done"
            /\ http[r].response.media_type = "image/png"
            /\ http[r].response.body = req[r].png_bytes
            /\ <<"X-Audio-Duration", StrOfDuration(req[r].duration)>>
                  \in http[r].response.headers
            /\ \A e \in http[r].response.headers :
                  e[1] = "X-Audio-Duration" =>
                      e[2] = StrOfDuration(req[r].duration)
            /\ <<"Access-Control-Expose-Headers", "X-Audio-Duration">>
                  \in http[r].response.headers
            /\ "X-Audio-Duration" \in CorsExposeHeaders

\* A request for two frames of audio has been answered with the image and
\* the duration 1280 / 44100 s in its header.
C23_Witness ==
    \E r \in ApiRequests :
        /\ Responded(r)
        /\ http[r].response.status = 200
        /\ Len(http[r].response.body) > 57
        /\ req[r].duration = FFT_SIZE + HOP_SIZE
        /\ <<"X-Audio-Duration", "0.029024943310657598">>
              \in http[r].response.headers

\* C24: for a decoder output of 2 * N bytes the conversion yields exactly N
\* samples, each the signed 16-bit value of its two bytes over 32768 and so
\* between -1 and 32767/32768; the duration is N / 44100 s: 1 s for N =
\* 44100, 0 s for N = 0.
C24_DecodedSamples ==
    pc = "decoded" =>
        /\ 2 * Len(decoded) = Len(stdout)
        /\ \A k \in 1 .. Len(decoded) :
              /\ decoded[k] = stdout[2 * k - 1] + 256 * stdout[2 * k]
                                 - 65536 * (stdout[2 * k] \div 128)
              /\ decoded[k] >= -SampleScale
              /\ decoded[k] <= SampleScale - 1
        /\ decoded_duration * 44100 = Len(decoded) * SAMPLE_RATE
        /\ Len(decoded) = 44100 => decoded_duration = SAMPLE_RATE
        /\ Len(decoded) = 0 => decoded_duration = 0

\* An output with the most negative and a positive sample has been converted.
C24_Witness ==
    /\ pc = "decoded"
    /\ Len(decoded) = 2
    /\ decoded[1] = -SampleScale
    /\ decoded[2] = SampleScale - 1
    /\ decoded_duration = 2

C26_FrameStride ==
    Ended =>
        /\ frame_step >= 1
        /\ IF num_frames >= spectrogram_width
           THEN /\ frame_step * spectrogram_width <= num_frames
                /\ num_frames < (frame_step + 1) * spectrogram_width
           ELSE frame_step = 1
        /\ {magnitudes[j].frame_idx : j \in 1 .. Len(magnitudes)} =
               {k \in 0 .. num_frames - 1 : k % frame_step = 0}
        /\ (Len(magnitudes) - 1) * frame_step < num_frames
        /\ num_frames <= Len(magnitudes) * frame_step
        /\ \A c \in 0 .. actual_cols - 1 :
              /\ magnitudes[c + 1].frame_idx = c * frame_step
              /\ c > 0 => magnitudes[c].frame_idx < magnitudes[c + 1].frame_idx
              /\ pc = "returned" =>
                    /\ image.cols[c].rendered
                    /\ image.cols[c].row.frame_idx = c * frame_step
        /\ Len(magnitudes) < spectrogram_width =>
              num_frames < spectrogram_width * frame_step

\* One second was rendered at a stride of two frames: 85 rows for 169 frames,
\* the last rendered column showing frame 166.
C26_Witness ==
    /\ pc = "returned"
    /\ num_frames = 169
    /\ frame_step = 2
    /\ Len(magnitudes) = 85
    /\ actual_cols = 84
    /\ image.cols[83].row.frame_idx = 166

\* C27: every Magnitude Row has min(512, 2 * 200) = 400 values; for every
\* output row r of the 200 the bin index min(floor((199 - r) * 400 / 200), 399)
\* is an index of the row, falls strictly as r grows, and is 398 for r = 0
\* and 0 for r = 199.
C27_BinIndex ==
    Ended =>
        /\ display_height = 200
        /\ \A j \in 1 .. Len(magnitudes) :
              /\ RowLen(magnitudes[j]) = 400
              /\ DOMAIN RowValues(magnitudes[j]) = 0 .. 399
              /\ \A r \in 0 .. 199 :
                    LET bin_idx == BinIdx(r, display_height,
                                          RowLen(magnitudes[j]))
                    IN  /\ bin_idx \in DOMAIN RowValues(magnitudes[j])
                        /\ bin_idx = 2 * (199 - r)
                        /\ r > 0 => bin_idx < BinIdx(r - 1, display_height,
                                                     RowLen(magnitudes[j]))
        /\ BinIdx(0, display_height, RowLen(magnitudes[1])) = 398
        /\ BinIdx(199, display_height, RowLen(magnitudes[1])) = 0

\* A tone was rendered: the top output row shows bin 398 and the bottom one
\* bin 0 of the first Magnitude Row.
C27_Witness ==
    /\ pc = "returned"
    /\ ~magnitudes[1].silent
    /\ image.cols[0].rendered
    /\ RenderedPixel(magnitudes[1], 0, display_height, min_db, max_magnitude)
          = GetColorForValue(Normalized(RowDb(magnitudes[1], 398), min_db,
                                        max_magnitude))
    /\ RenderedPixel(magnitudes[1], 199, display_height, min_db, max_magnitude)
          = GetColorForValue(Normalized(RowDb(magnitudes[1], 0), min_db,
                                        max_magnitude))
    /\ RowDb(magnitudes[1], 100) # RowDb(magnitudes[1], 398)

\* The dB values of the rows the fill loop rendered.
RenderedValues == {RowValues(magnitudes[c + 1]) : c \in 0 .. actual_cols - 1}

\* C28: after the analysis loop max_magnitude is the largest dB value of all
\* computed rows, those never rendered included, and min_db is 80 below it;
\* for every rendered pixel db - min_db <= 80, the clamped normalized value
\* lies in [0, 1], and a db of at most max_magnitude - 80 renders as the
\* colour of value 0, (10, 0, 30).
C28_DynamicRange ==
    Ended =>
        /\ \A j \in 1 .. Len(magnitudes) :
              \A bin \in 0 .. 399 : RowDb(magnitudes[j], bin) <= max_magnitude
        /\ \E j \in 1 .. Len(magnitudes) :
              \E bin \in 0 .. 399 : RowDb(magnitudes[j], bin) = max_magnitude
        /\ min_db = max_magnitude - 80
        /\ pc = "returned" =>
              \A vals \in RenderedValues :
                  \A c \in {CHOOSE c \in 0 .. actual_cols - 1 :
                               RowValues(image.cols[c].row) = vals} :
                      \A r \in 0 .. image.height - 1 :
                          LET db == vals[BinIdx(r, image.height, 400)]
                          IN  /\ db - min_db <= 80
                              /\ Normalized(db, min_db, max_magnitude) >= 0
                              /\ Normalized(db, min_db, max_magnitude)
                                    <= NormScale
                              /\ db <= max_magnitude - 80 =>
                                    /\ Normalized(db, min_db, max_magnitude) = 0
                                    /\ Pixel(image, r, c, min_db, max_magnitude)
                                          = <<10, 0, 30>>

\* Of 85 rows the first 84 were rendered and only the last holds the tone: it
\* alone sets max_magnitude, 240 dB above the rendered rows, which come out
\* in the colour of value 0.
C28_Witness ==
    /\ pc = "returned"
    /\ Len(magnitudes) = 85
    /\ actual_cols = 84
    /\ ~magnitudes[85].silent
    /\ \A j \in 1 .. 84 : magnitudes[j].silent
    /\ max_magnitude = 40
    /\ min_db = -40
    /\ image.cols[0].rendered
    /\ Pixel(image, 0, 0, min_db, max_magnitude) = <<10, 0, 30>>

\* C29: for a buffer of N >= FFT_SIZE samples and every max_duration each
\* iterated frame lies inside the buffer, frame_idx * 256 + 1024 <= N, so the
\* zero-padding branch is taken only when N < FFT_SIZE; no frame starts
\* beyond the end of the buffer.
C29_FramesInsideBuffer ==
    Ended =>
        /\ samples.len >= 1024 =>
              \A j \in 1 .. Len(magnitudes) :
                  /\ magnitudes[j].frame_idx * 256 + 1024 <= samples.len
                  /\ magnitudes[j].available = 1024
        /\ \A j \in 1 .. Len(magnitudes) :
              /\ magnitudes[j].available < 1024 => samples.len < 1024
              /\ magnitudes[j].frame_idx * 256 <= samples.len

\* One second, which is no whole number of hops, was analysed frame by frame:
\* the last frame, 168, ends at sample 44032 of 44100.
C29_Witness ==
    /\ Ended
    /\ samples.len = 44100
    /\ frame_step = 1
    /\ Len(magnitudes) = 169
    /\ magnitudes[169].frame_idx = 168
    /\ magnitudes[169].available = 1024

\* C30: with max_duration absent the rendered columns span the whole
\* recording, for every sample count: the last rendered column shows a frame
\* less than one stride from the end,
\* (actual_cols - 1) * frame_step >= num_frames - frame_step.
C30_ColumnsSpanRecording ==
    (Ended /\ ~max_duration.given) =>
        (actual_cols - 1) * frame_step >= num_frames - frame_step

====
